---- MODULE Spec2Model ----
(***************************************************************************)
(* Retrieval core of the RAG chatbot: DocumentProcessor (chunking,         *)
(* embedding, ingestion into the two ChromaDB collections, semantic        *)
(* search) of Backend/document_processor.py and its callers.               *)
(*                                                                         *)
(* Python strings are modelled exactly, in run-length form: a string is a  *)
(* sequence of runs <<c, n>> (character c repeated n >= 1 times) in which  *)
(* adjacent runs carry different characters.  The form is canonical, so    *)
(* equality of two values is equality of the strings, and a text of        *)
(* thousands of characters stays a short value.                            *)
(***************************************************************************)
EXTENDS Integers, Sequences, FiniteSets, TLC

Max2(a, b) == IF a >= b THEN a ELSE b
Min2(a, b) == IF a <= b THEN a ELSE b

----------------------------------------------------------------------------
(* Python str operations used by the program *)

\* len(s)
RECURSIVE SLen(_)
SLen(s) == IF s = <<>> THEN 0 ELSE s[1][2] + SLen(Tail(s))

\* s + t
Cat(s, t) ==
    IF s = <<>> THEN t
    ELSE IF t = <<>> THEN s
    ELSE IF s[Len(s)][1] = t[1][1]
         THEN SubSeq(s, 1, Len(s) - 1)
              \o << <<t[1][1], s[Len(s)][2] + t[1][2]>> >> \o Tail(t)
         ELSE s \o t

\* the string made of the characters of the tuple cs, in order
RECURSIVE Str(_)
Str(cs) == IF cs = <<>> THEN <<>> ELSE Cat(<< <<cs[1], 1>> >>, Str(Tail(cs)))

\* c * n
Rep(c, n) == IF n <= 0 THEN <<>> ELSE << <<c, n>> >>

\* the first n characters of s (0 <= n)
RECURSIVE Take(_, _)
Take(s, n) ==
    IF n <= 0 \/ s = <<>> THEN <<>>
    ELSE IF s[1][2] <= n THEN <<s[1]>> \o Take(Tail(s), n - s[1][2])
    ELSE << <<s[1][1], n>> >>

\* s without its first n characters (0 <= n)
RECURSIVE Drop(_, _)
Drop(s, n) ==
    IF n <= 0 \/ s = <<>> THEN s
    ELSE IF s[1][2] <= n THEN Drop(Tail(s), n - s[1][2])
    ELSE << <<s[1][1], s[1][2] - n>> >> \o Tail(s)

\* a slice bound as Python normalises it: negative counts from the end,
\* then clamped to 0..len
SliceIndex(i, n) == IF i < 0 THEN Max2(i + n, 0) ELSE Min2(i, n)

\* s[i:j]
PySlice(s, i, j) ==
    LET n  == SLen(s)
        lo == SliceIndex(i, n)
        hi == SliceIndex(j, n)
    IN  IF lo >= hi THEN <<>> ELSE Take(Drop(s, lo), hi - lo)

\* s.rfind(c) for a one-character c: the last index of c, or -1
RECURSIVE RFind(_, _)
RFind(s, c) ==
    IF s = <<>> THEN -1
    ELSE IF s[Len(s)][1] = c THEN SLen(s) - 1
    ELSE RFind(SubSeq(s, 1, Len(s) - 1), c)

Whitespace == {" ", "\n", "\t"}

\* s.strip()
RECURSIVE LStrip(_)
LStrip(s) == IF s # <<>> /\ s[1][1] \in Whitespace THEN LStrip(Tail(s)) ELSE s
RECURSIVE RStrip(_)
RStrip(s) ==
    IF s # <<>> /\ s[Len(s)][1] \in Whitespace
    THEN RStrip(SubSeq(s, 1, Len(s) - 1)) ELSE s
Strip(s) == RStrip(LStrip(s))

UpperCase == <<"A","B","C","D","E","F","G","H","I","J","K","L","M",
               "N","O","P","Q","R","S","T","U","V","W","X","Y","Z">>
LowerCase == <<"a","b","c","d","e","f","g","h","i","j","k","l","m",
               "n","o","p","q","r","s","t","u","v","w","x","y","z">>
LowerChar(c) ==
    IF \E i \in 1..Len(UpperCase) : UpperCase[i] = c
    THEN LowerCase[CHOOSE i \in 1..Len(UpperCase) : UpperCase[i] = c]
    ELSE c

\* s.lower()
RECURSIVE Lower(_)
Lower(s) ==
    IF s = <<>> THEN <<>>
    ELSE Cat(<< <<LowerChar(s[1][1]), s[1][2]>> >>, Lower(Tail(s)))

UpperChar(c) ==
    IF \E i \in 1..Len(LowerCase) : LowerCase[i] = c
    THEN UpperCase[CHOOSE i \in 1..Len(LowerCase) : LowerCase[i] = c]
    ELSE c

\* s.upper()
RECURSIVE Upper(_)
Upper(s) ==
    IF s = <<>> THEN <<>>
    ELSE Cat(<< <<UpperChar(s[1][1]), s[1][2]>> >>, Upper(Tail(s)))

\* s.endswith(suffix)
EndsWith(s, suffix) ==
    /\ SLen(s) >= SLen(suffix)
    /\ Drop(s, SLen(s) - SLen(suffix)) = suffix

\* t in s (t occurs as a substring of s): the first run of t ends a run of
\* s, the runs between are runs of s, and the last run of t starts one
Contains(s, t) ==
    LET m == Len(t)
    IN  IF m = 0 THEN TRUE
        ELSE IF m = 1
        THEN \E j \in 1..Len(s) : s[j][1] = t[1][1] /\ s[j][2] >= t[1][2]
        ELSE \E j \in 1..(Len(s) - m + 1) :
                /\ s[j][1] = t[1][1] /\ s[j][2] >= t[1][2]
                /\ \A i \in 2..(m - 1) : s[j + i - 1] = t[i]
                /\ s[j + m - 1][1] = t[m][1] /\ s[j + m - 1][2] >= t[m][2]

\* s.split(): the maximal runs of non-whitespace characters of s, in order
RECURSIVE SplitFrom(_, _)
SplitFrom(s, word) ==
    IF s = <<>> THEN (IF word = <<>> THEN <<>> ELSE <<word>>)
    ELSE IF s[1][1] \in Whitespace
    THEN (IF word = <<>> THEN <<>> ELSE <<word>>) \o SplitFrom(Tail(s), <<>>)
    ELSE SplitFrom(Tail(s), Append(word, s[1]))
Split(s) == SplitFrom(s, <<>>)

Digits == <<"0","1","2","3","4","5","6","7","8","9">>

\* str(n) for an integer n >= 0, as an f-string formats it
RECURSIVE Decimal(_)
Decimal(n) ==
    IF n < 10 THEN Str(<<Digits[n + 1]>>)
    ELSE Cat(Decimal(n \div 10), Str(<<Digits[(n % 10) + 1]>>))

----------------------------------------------------------------------------
(* Program constants *)

MinChunkLen      == 100      \* chunk_text: a chunk is kept when len(chunk) > 100
MaxTextLen       == 500000   \* chunk_text: longer texts are truncated
DefaultChunkSize == 2000     \* chunk_text: default chunk_size
DefaultOverlap   == 200      \* chunk_text: default overlap
IngestMaxChunks  == 200      \* process_document: chunk_text(text, max_chunks=200)
DefaultNResults  == 3        \* retrieve_context: n_results when the caller gives none
BatchSize        == 10       \* process_document: batch_size

----------------------------------------------------------------------------
(* State *)

VARIABLES
    pc,              \* where the single thread of control is
    caller,          \* who called chunk_text: "direct" or "process_document"
    ct,              \* chunk_text's frame: its parameters and locals
    pd,              \* process_document's frame
    env,             \* the embedding service and the store, as the calls meet them
    nec_collection,  \* the records of collection nec_documents
    wattmonk_collection, \* the records of collection wattmonk_documents
    ingests,         \* process_document calls that reached chunk_text so far
    last_ingest,     \* history: what the last of them to finish did
    prev_ingest,     \* history: and the one before it
    id_log,          \* history: the ids computed at line 185 for the first chunks
    ret,             \* the value the operation that just finished returned
    ch,              \* chat's frame: its parameters and locals
    conversation_history \* RAGChatbot.conversation_history

vars == <<pc, caller, ct, pd, env, nec_collection, wattmonk_collection,
          ingests, last_ingest, prev_ingest, id_log, ret, ch, conversation_history>>

NoFrame == [none |-> TRUE]

----------------------------------------------------------------------------
(* DocumentProcessor.chunk_text *)

\* lines 73-83: the frame on entry to the loop
ChunkFrame(text, chunk_size, overlap, max_chunks) ==
    LET t == IF SLen(text) > MaxTextLen THEN PySlice(text, 0, MaxTextLen) ELSE text
    IN  [text |-> t, text_length |-> SLen(t), chunk_size |-> chunk_size,
         overlap |-> overlap, max_chunks |-> max_chunks,
         start |-> 0, chunks |-> <<>>]

\* line 85 without its second conjunct: a loop that does not count its chunks
LoopCondUncapped(f) == f.start < f.text_length

\* line 85: the loop condition
LoopCond(f) == f.start < f.text_length /\ Len(f.chunks) < f.max_chunks

\* lines 86-88: the window's right edge
WindowEnd(f) ==
    IF f.start + f.chunk_size > f.text_length THEN f.text_length
    ELSE f.start + f.chunk_size

\* lines 90, 93-95: the last '.' or newline of the window text[start:w], as
\* an index INTO THE WINDOW (rfind is applied to the slice), -1 when none
BreakPointIn(f, w) ==
    LET chunk == PySlice(f.text, f.start, w)
    IN  Max2(RFind(chunk, "."), RFind(chunk, "\n"))

\* lines 92 and 97: whether the chunk end snaps to break point bp
SnapsAt(f, w, bp) == w < f.text_length /\ bp > f.start + f.chunk_size \div 2

\* lines 99 and 105: where a chunk ending at window edge w ends
EndAt(f, w, bp) == IF SnapsAt(f, w, bp) THEN bp + 1 ELSE w

\* lines 90, 98, 101: the candidate chunk ending at end, trimmed
CandidateAt(f, end) == Strip(PySlice(f.text, f.start, end))

\* line 102 keeping a candidate of the minimum length too
KeepsFromMinimum(chunk) == SLen(chunk) >= MinChunkLen

\* line 102: whether the candidate is kept
Keeps(chunk) == SLen(chunk) > MinChunkLen

\* lines 86-105: one iteration of the loop
ChunkIter(f) ==
    LET w     == WindowEnd(f)
        end   == EndAt(f, w, BreakPointIn(f, w))
        chunk == CandidateAt(f, end)
    IN  [f EXCEPT !.chunks = IF Keeps(chunk) THEN Append(@, chunk) ELSE @,
                  !.start  = end - f.overlap]

\* the values of one iteration, by name
BreakPoint(f) == BreakPointIn(f, WindowEnd(f))
Snaps(f)      == SnapsAt(f, WindowEnd(f), BreakPoint(f))
ChunkEnd(f)   == EndAt(f, WindowEnd(f), BreakPoint(f))
Candidate(f)  == CandidateAt(f, ChunkEnd(f))
NextStart(f)  == ChunkIter(f).start

\* whether iteration f -> g appended a chunk or moved the cursor forward
Progressed(f, g) == Len(g.chunks) > Len(f.chunks) \/ g.start > f.start

\* the next iteration when the loop goes on and the iteration progresses,
\* and f itself when not
StepOrStay(f) ==
    IF ~LoopCond(f) THEN f
    ELSE LET g == ChunkIter(f)
         IN  IF Progressed(f, g) THEN g ELSE f

\* lines 85-105 repeated: StepOrStay applied 2^k times
RECURSIVE RunLoop(_, _)
RunLoop(f, k) ==
    IF k = 0 THEN StepOrStay(f)
    ELSE LET h == RunLoop(f, k - 1)
         IN  IF LoopCond(h) THEN RunLoop(h, k - 1) ELSE h

----------------------------------------------------------------------------
(* Bounds of the model *)

MaxDirectChunks == 3   \* max_chunks of a direct chunk_text call ranges over 0..3
MaxIngests      == 2   \* process_document calls that reach chunk_text
MaxSearchIngests == 2  \* the same, in a behaviour with searches
RunDepth        == 8   \* a ChunkRun step takes up to 2^RunDepth further iterations
IdLogDepth      == 2   \* id_log keeps the ids of chunk indices below it
MaxK            == 2   \* n_results of a search ranges over 1..MaxK
MaxRetrieveIngests == 2 \* process_document calls in a behaviour with retrievals
MaxWords        == 3   \* words in a drawn query of classify_intent
MaxChatIngests  == 1   \* process_document calls in a behaviour with chats
MaxHistory      == 2   \* chat keeps history while it stays within this length
MaxLogLength    == 4   \* entries the history is followed up to, with no ingestion

----------------------------------------------------------------------------
(* Inputs *)

\* texts handed to chunk_text directly
Sentences == Cat(Cat(Rep("a", 99), Rep(".", 1)),
                 Cat(Cat(Rep("b", 99), Rep(".", 1)), Cat(Rep("a", 99), Rep(".", 1))))
DirectTexts ==
    { <<>>,                                       \* empty input
      Rep("a", 50),                               \* shorter than a kept chunk
      Rep("a", 100),                              \* exactly the minimum length
      Rep("a", 150),
      Cat(Rep(" ", 5), Cat(Rep("a", 101), Rep("\n", 4))),
      Cat(Rep("a", 150), Rep(" ", 150)),          \* long blank tail
      Cat(Rep("a", 110), Cat(Rep("\n", 1), Rep("b", 189))),
      Sentences,
      Rep("a", 300) }
ChunkSizes == {1, 120, 250, DefaultChunkSize}
\* overlaps of a direct call: below the chunk size and equal to it (a larger
\* overlap sends the cursor down without bound)
Overlaps(chunk_size) == {o \in {0, 10, 60, DefaultOverlap, chunk_size} : o <= chunk_size}

\* what a file holds when process_document reads it
Unreadable == <<"unreadable">>
Blank == Cat(Rep(" ", 3), Rep("\n", 2))
TextA == Rep("a", 2500)
TextB == Cat(Rep("a", 1000), Rep("b", 1500))
Files == {Unreadable, Blank, Rep("a", 50), TextA, TextB}
\* what an uploaded file holds
UploadFiles == {Unreadable, Blank, TextA}

NecFile      == Str(<<"d","/","N","E","C",".","p","d","f">>)
WattmonkFile == Str(<<"d","/","W",".","d","o","c","x">>)
\* the (file_path, document_type) pairs of process_documents.py and of
\* main.py's initialize_documents
InitCalls == { <<NecFile, Str(<<"n","e","c">>)>>,
               <<WattmonkFile, Str(<<"w","a","t","t","m","o","n","k">>)>> }
\* document types a client posts to /upload-document
UploadLabels == { Str(<<"N","E","C">>), Str(<<"o","t","h","e","r">>) }

\* the files a search is run over: (file_path, document_type, content)
SearchCalls == { <<NecFile, Str(<<"n","e","c">>), TextA>>,
                 <<NecFile, Str(<<"n","e","c">>), TextB>>,
                 <<WattmonkFile, Str(<<"w","a","t","t","m","o","n","k">>), TextA>> }
\* the queries of a search, the document types it names, and the order in
\* which the store returns records at the same distance
Queries == { Str(<<"w","i","r","e">>), Rep("q", 5) }
SearchTypes == { <<"None">>, Str(<<"n","e","c">>),
                 Str(<<"W","a","t","t","m","o","n","k">>), Str(<<"o","t","h","e","r">>) }
TieOrders == {"oldest_first", "newest_first"}

\* the files retrieval is run over: (file_path, document_type, content)
ZippyText == Cat(Rep("x", 150),
                 Cat(Str(<<" ","Z","i","p","p","y"," ","t","o","o","l"," ">>),
                     Rep("x", 2338)))
ToolText  == Cat(Str(<<"a","u","t","o","m","a","t","i","o","n"," ","t","o","o","l"," ">>), Rep("y", 2484))
RetrieveCalls == { <<NecFile, Str(<<"n","e","c">>), ZippyText>>,
                   <<WattmonkFile, Str(<<"w","a","t","t","m","o","n","k">>), ZippyText>>,
                   <<WattmonkFile, Str(<<"w","a","t","t","m","o","n","k">>), ToolText>> }
\* the queries of a retrieval
RetrieveQueries == { Str(<<"Z","i","p","p","y"," ","t","o","o","l">>),
                     Str(<<"a"," ","t","o","o","l"," ","d","i","a","g","r","a","m","s">>),
                     Str(<<"x","x">>),
                     Str(<<"w","i","r","e">>) }

\* the words the queries of classify_intent are made of
IntentWords == << Str(<<"N","E","C">>),
                   Str(<<"e","l","e","c","t","r","i","c","a","l">>),
                   Str(<<"c","o","d","e">>),
                   Str(<<"w","i","r","i","n","g">>),
                   Str(<<"W","a","t","t","m","o","n","k">>),
                   Str(<<"c","o","m","p","a","n","y">>),
                   Str(<<"s","o","l","a","r">>),
                   Str(<<"d","e","s","i","g","n">>),
                   Str(<<"w","e","a","t","h","e","r">>),
                   Str(<<"c","o","n","n","e","c","t">>) >>
\* the queries of up to n words, joined by single spaces
RECURSIVE WordQueries(_)
WordQueries(n) ==
    IF n <= 0 THEN {}
    ELSE {IntentWords[i] : i \in 1..Len(IntentWords)}
         \cup {Cat(q, Cat(Str(<<" ">>), IntentWords[i])) :
                  q \in WordQueries(n - 1), i \in 1..Len(IntentWords)}
\* the queries of check_documents.py lines 74-79 and of the documentation
\* "What is the grounding requirement for circuits?"
GroundingQuery ==
    Str(<<"W","h","a","t"," ","i","s"," ","t","h","e"," ","g","r","o","u",
          "n","d","i","n","g"," ","r","e","q","u","i","r","e","m","e","n",
          "t"," ","f","o","r"," ","c","i","r","c","u","i","t","s","?">>)
\* "Tell me about NEC electrical codes"
NecCodesQuery ==
    Str(<<"T","e","l","l"," ","m","e"," ","a","b","o","u","t"," ","N","E",
          "C"," ","e","l","e","c","t","r","i","c","a","l"," ","c","o","d",
          "e","s">>)
\* "What is electrical grounding in NEC?"
NecGroundingQuery ==
    Str(<<"W","h","a","t"," ","i","s"," ","e","l","e","c","t","r","i","c",
          "a","l"," ","g","r","o","u","n","d","i","n","g"," ","i","n"," ",
          "N","E","C","?">>)
\* "What does Wattmonk's platform do?"
PlatformQuery ==
    Str(<<"W","h","a","t"," ","d","o","e","s"," ","W","a","t","t","m","o",
          "n","k","'","s"," ","p","l","a","t","f","o","r","m"," ","d","o",
          "?">>)
\* "What is Wattmonk?"
WhatIsWattmonkQuery ==
    Str(<<"W","h","a","t"," ","i","s"," ","W","a","t","t","m","o","n","k",
          "?">>)
\* "What services does Wattmonk offer?"
ServicesQuery ==
    Str(<<"W","h","a","t"," ","s","e","r","v","i","c","e","s"," ","d","o",
          "e","s"," ","W","a","t","t","m","o","n","k"," ","o","f","f","e",
          "r","?">>)
\* "What's the weather today?"
WeatherQuery ==
    Str(<<"W","h","a","t","'","s"," ","t","h","e"," ","w","e","a","t","h",
          "e","r"," ","t","o","d","a","y","?">>)
DocumentedQueries == {GroundingQuery, NecCodesQuery, NecGroundingQuery, PlatformQuery,
                      WhatIsWattmonkQuery, ServicesQuery, WeatherQuery}
IntentQueries == WordQueries(MaxWords) \cup DocumentedQueries
\* the queries of a chat
\* a document that quotes a citation, and the files a chat is run over
CitingText == Cat(Rep("x", 1900),
                  Cat(Str(<<" ","[","S","o","u","r","c","e"," ","1","]"," ">>),
                      Rep("x", 588)))
ChatCalls == RetrieveCalls \cup { <<NecFile, Str(<<"n","e","c">>), CitingText>> }
\* the limits get_conversation_history is called with (10 by default)
HistoryLimits == {-1, 0, 1, 3, 10}
ChatQueries == { <<"None">>,
                 Str(<<"Z","i","p","p","y"," ","t","o","o","l">>),
                 Str(<<"N","E","C"," ","w","i","r","i","n","g">>),
                 WeatherQuery }

\* the embedding service and the store's add on an existing id, fixed for a
\* behaviour
Services == {"up", "flaky", "store_outage", "down"}
AddModes == {"overwrite", "ignore", "raise"}
\* a healthy service with each behaviour of add, a failing one with the
\* behaviour of the current library
Environments ==
    {[service |-> "up", add_existing |-> m] : m \in AddModes}
    \cup {[service |-> sv, add_existing |-> "ignore"] : sv \in Services}

----------------------------------------------------------------------------
(* The embedding service (genai.embed_content) *)

PrimaryModel  == "models/text-embedding-004"
FallbackModel == "models/embedding-001"

\* the vector a model returns for a text: a function of the model and the
\* text alone
EmbedVector(model, text) ==
    << (SLen(text) + 3 * Len(text) + (IF model = FallbackModel THEN 1 ELSE 0)) % 7 >>

\* what the service does with the embedding of chunk i of the call_no-th
\* process_document call: "primary" (first call succeeds), "fallback" (first
\* call fails, second succeeds), "fail" (both fail)
EmbedOutcome(service, call_no, i) ==
    CASE service = "up"           -> "primary"
      [] service = "store_outage" -> "primary"
      [] service = "flaky"        -> <<"primary", "fallback", "fail">>[(i % 3) + 1]
      [] service = "down"         -> "fail"

\* whether collection.add succeeds for chunk i of the call_no-th call, apart
\* from what it does with an existing id
StoreOutcome(service, call_no, i) ==
    CASE service = "store_outage" -> IF call_no = 1 /\ i >= 1 THEN "fail" ELSE "ok"
      [] service = "flaky"        -> IF i % 4 = 3 THEN "fail" ELSE "ok"
      [] OTHER                    -> "ok"

\* generate_embeddings, were it to try the primary model again before the
\* fallback model
GenerateEmbeddingsRetrying(outcome, text) ==
    LET first  == [model |-> PrimaryModel, task_type |-> "retrieval_document",
                   ok |-> outcome = "primary"]
        second == [model |-> FallbackModel, task_type |-> "retrieval_document",
                   ok |-> outcome = "fallback"]
    IN  IF outcome = "primary"
        THEN [vector |-> EmbedVector(PrimaryModel, text), calls |-> <<first>>]
        ELSE IF outcome = "fallback"
        THEN [vector |-> EmbedVector(FallbackModel, text),
              calls |-> <<first, first, second>>]
        ELSE [vector |-> <<>>, calls |-> <<first, first, second>>]

\* DocumentProcessor.generate_embeddings: the vector returned ([] when both
\* models fail) and the embed_content calls made
GenerateEmbeddings(outcome, text) ==
    LET first  == [model |-> PrimaryModel, task_type |-> "retrieval_document",
                   ok |-> outcome = "primary"]
        second == [model |-> FallbackModel, task_type |-> "retrieval_document",
                   ok |-> outcome = "fallback"]
    IN  IF outcome = "primary"
        THEN [vector |-> EmbedVector(PrimaryModel, text), calls |-> <<first>>]
        ELSE IF outcome = "fallback"
        THEN [vector |-> EmbedVector(FallbackModel, text), calls |-> <<first, second>>]
        ELSE [vector |-> <<>>, calls |-> <<first, second>>]

----------------------------------------------------------------------------
(* The store (a ChromaDB collection): its records in insertion order *)

HasId(coll, id) == \E j \in 1..Len(coll) : coll[j].id = id

\* collection.add of one record; on an id the collection already holds the
\* library overwrites the record, leaves the old one, or raises
CollectionAdd(coll, rec, mode) ==
    IF ~HasId(coll, rec.id)
    THEN [coll |-> Append(coll, rec), raised |-> FALSE]
    ELSE IF mode = "raise" THEN [coll |-> coll, raised |-> TRUE]
    ELSE IF mode = "ignore" THEN [coll |-> coll, raised |-> FALSE]
    ELSE [coll |-> [j \in 1..Len(coll) |->
                        IF coll[j].id = rec.id THEN rec ELSE coll[j]],
          raised |-> FALSE]

----------------------------------------------------------------------------
(* DocumentProcessor.process_document *)

\* hashlib.md5(...).hexdigest(), taken to be collision-free: the digest
\* stands for the string digested
Md5(s) == <<"md5", s>>

\* line 185 hashing the number of the call as well: an id that is new in
\* every run
ChunkIdPerRun(file_path, actual_index, chunk) ==
    Md5(Cat(file_path, Cat(Str(<<"_">>), Cat(Decimal(actual_index),
        Cat(Str(<<"_">>), Cat(PySlice(chunk, 0, 100), Decimal(ingests)))))))

\* line 185: the id of the chunk at actual_index
ChunkId(file_path, actual_index, chunk) ==
    Md5(Cat(file_path, Cat(Str(<<"_">>), Cat(Decimal(actual_index),
        Cat(Str(<<"_">>), PySlice(chunk, 0, 100))))))

\* os.path.basename
Basename(path) == PySlice(path, RFind(path, "/") + 1, SLen(path))

\* line 167: the collection a document type is stored in
IsNec(document_type) == Lower(document_type) = Str(<<"n","e","c">>)
IsWattmonk(document_type) ==
    Lower(document_type) = Str(<<"w","a","t","t","m","o","n","k">>)
TargetCollection(document_type) == IF IsNec(document_type) THEN "nec" ELSE "wattmonk"

\* lines 187-197: the record added for a chunk
ChunkRecord(file_path, document_type, actual_index, chunk, embedding) ==
    [id        |-> ChunkId(file_path, actual_index, chunk),
     embedding |-> embedding,
     document  |-> chunk,
     metadata  |-> [source |-> Basename(file_path), chunk_index |-> actual_index,
                    document_type |-> document_type, file_path |-> file_path]]

\* line 183 taking every vector, the empty one too
AnyEmbedding(embedding) == TRUE

\* line 183: if embedding
HasEmbedding(embedding) == embedding # <<>>

\* lines 178-204: the body of the inner loop for the chunk at actual_index;
\* st carries the collection, successful_chunks, what failed so far and the
\* indices of the chunks the loop has taken, in order
StoreChunk(st, f, e, actual_index) ==
    LET chunk == f.chunks[actual_index + 1]
        emb   == GenerateEmbeddings(EmbedOutcome(e.service, f.call_no, actual_index), chunk)
        rec   == ChunkRecord(f.file_path, f.document_type, actual_index, chunk, emb.vector)
        added == CollectionAdd(st.coll, rec, e.add_existing)
    IN  IF ~HasEmbedding(emb.vector)
        THEN [st EXCEPT !.embed_failed = TRUE, !.order = Append(@, actual_index)]
        ELSE IF StoreOutcome(e.service, f.call_no, actual_index) = "fail" \/ added.raised
        THEN [st EXCEPT !.store_failed = TRUE, !.order = Append(@, actual_index),
                        !.ids = Append(@, [chunk_index |-> actual_index, rec |-> rec])]
        ELSE [st EXCEPT !.coll = added.coll, !.successful_chunks = @ + 1,
                        !.order = Append(@, actual_index),
                        !.ids = Append(@, [chunk_index |-> actual_index, rec |-> rec])]

\* one batch, were the first chunk that fails to end it
RECURSIVE StoreBatchStopping(_, _, _, _, _)
StoreBatchStopping(st, f, e, i, batch_end) ==
    IF i >= batch_end \/ st.embed_failed \/ st.store_failed THEN st
    ELSE StoreBatchStopping(StoreChunk(st, f, e, i), f, e, i + 1, batch_end)

\* lines 172-178: one batch, chunks i .. batch_end - 1
RECURSIVE StoreBatchFrom(_, _, _, _, _)
StoreBatchFrom(st, f, e, i, batch_end) ==
    IF i >= batch_end THEN st
    ELSE StoreBatchFrom(StoreChunk(st, f, e, i), f, e, i + 1, batch_end)

\* the records of a collection that came from file_path
FileCount(coll, file_path) ==
    Cardinality({j \in 1..Len(coll) : coll[j].metadata.file_path = file_path})

Collection(name) == IF name = "nec" THEN nec_collection ELSE wattmonk_collection

\* process_document returns value: the entry the history keeps of the call
IngestEntry(f, value, coll) ==
    [file_path |-> f.file_path, text |-> f.text, document_type |-> f.document_type,
     value |-> value, attempted |-> Len(f.chunks),
     embed_failed |-> f.embed_failed, store_failed |-> f.store_failed,
     file_count |-> FileCount(coll, f.file_path)]

\* lines 144-165: process_document up to its call of chunk_text.  The
\* extractors return "" for a file they cannot read; open() raises, which
\* the handler at line 212 turns into False.
EnterProcessDocument(file_path, document_type, file) ==
    LET lower   == Lower(file_path)
        is_pdf  == EndsWith(lower, Str(<<".","p","d","f">>))
        is_docx == EndsWith(lower, Str(<<".","d","o","c","x">>))
        raises  == ~is_pdf /\ ~is_docx /\ file = Unreadable
        text    == IF file = Unreadable THEN <<>> ELSE file
        f       == [file_path |-> file_path, document_type |-> document_type,
                    text |-> text, chunks |-> <<>>, batch_start |-> 0,
                    successful_chunks |-> 0, call_no |-> ingests + 1,
                    embed_failed |-> FALSE, store_failed |-> FALSE,
                    order |-> <<>>]
    IN  /\ IF raises \/ Strip(text) = <<>>
           THEN /\ pc' = "returned"
                /\ ret' = [op |-> "process_document", value |-> FALSE]
                /\ UNCHANGED <<caller, ct, pd, ingests>>
           ELSE /\ pc' = "chunk_loop"
                /\ caller' = "process_document"
                /\ ct' = ChunkFrame(text, DefaultChunkSize, DefaultOverlap, IngestMaxChunks)
                /\ pd' = f
                /\ ingests' = ingests + 1
                /\ UNCHANGED ret
        /\ UNCHANGED <<env, ch, conversation_history, nec_collection, wattmonk_collection, last_ingest,
                       prev_ingest, id_log>>

\* process_documents.py lines 66-70, 88-92 and main.py lines 155-167: the
\* two corpus files are processed under their fixed document types
InitializeDocuments(call, file, limit) ==
    /\ pc = "idle"
    /\ ingests < limit
    /\ EnterProcessDocument(call[1], call[2], file)

\* main.py line 85 left out: every document type is accepted
AcceptsAnyLabel(document_type) == TRUE

\* main.py line 85: the document types /upload-document accepts
LabelAccepted(document_type) == IsNec(document_type) \/ IsWattmonk(document_type)

\* main.py line 89-91: the temporary file an upload is written to, a fresh
\* name for every upload
TempPath ==
    Cat(Str(<<"/","t","m","p","/","u">>), Cat(Decimal(ingests), Str(<<".","t","x","t">>)))

\* main.py lines 79-96: /upload-document
UploadDocument(document_type, file, limit) ==
    /\ pc = "idle"
    /\ ingests < limit
    /\ IF LabelAccepted(document_type)
       THEN EnterProcessDocument(TempPath, document_type, file)
       ELSE /\ pc' = "returned"
            /\ ret' = [op |-> "upload_document", value |-> "rejected"]
            /\ UNCHANGED <<caller, ct, pd, env, ch, conversation_history, nec_collection, wattmonk_collection,
                           ingests, last_ingest, prev_ingest, id_log>>

\* a direct call of chunk_text
ChunkText(text, chunk_size, overlap, max_chunks) ==
    /\ pc = "idle"
    /\ pc' = "chunk_loop"
    /\ caller' = "direct"
    /\ ct' = ChunkFrame(text, chunk_size, overlap, max_chunks)
    /\ UNCHANGED <<pd, env, ch, conversation_history, nec_collection, wattmonk_collection, ingests,
                   last_ingest, prev_ingest, id_log, ret>>

\* lines 85-105: one iteration of chunk_text's loop
ChunkLoop ==
    /\ pc = "chunk_loop"
    /\ caller = "direct"
    /\ LoopCond(ct)
    /\ ct' = ChunkIter(ct)
    /\ UNCHANGED <<pc, caller, pd, env, ch, conversation_history, nec_collection, wattmonk_collection,
                   ingests, last_ingest, prev_ingest, id_log, ret>>

\* lines 85-105 inside process_document: one iteration, and with it up to
\* 2^RunDepth of the progressing iterations that follow it
ChunkRun ==
    /\ pc = "chunk_loop"
    /\ caller = "process_document"
    /\ LoopCond(ct)
    /\ ct' = RunLoop(ChunkIter(ct), RunDepth)
    /\ UNCHANGED <<pc, caller, pd, env, ch, conversation_history, nec_collection, wattmonk_collection,
                   ingests, last_ingest, prev_ingest, id_log, ret>>

\* lines 110-114: chunk_text returns to a direct caller
ChunkReturnDirect ==
    /\ pc = "chunk_loop"
    /\ caller = "direct"
    /\ ~LoopCond(ct)
    /\ pc' = "returned"
    /\ ret' = [op |-> "chunk_text", value |-> ct.chunks, frame |-> ct]
    /\ ct' = NoFrame
    /\ UNCHANGED <<caller, pd, env, ch, conversation_history, nec_collection, wattmonk_collection, ingests,
                   last_ingest, prev_ingest, id_log>>

\* lines 110-114 and 165-170: chunk_text returns to process_document
ChunkReturnIngest ==
    /\ pc = "chunk_loop"
    /\ caller = "process_document"
    /\ ~LoopCond(ct)
    /\ pc' = "store_loop"
    /\ pd' = [pd EXCEPT !.chunks = ct.chunks]
    /\ ct' = NoFrame
    /\ UNCHANGED <<caller, env, ch, conversation_history, nec_collection, wattmonk_collection, ingests,
                   last_ingest, prev_ingest, id_log, ret>>

\* the history of computed ids, extended by those of one batch
LogIds(log, ids) ==
    log \cup {[chunk_index |-> ids[j].chunk_index, id |-> ids[j].rec.id,
               file_path |-> ids[j].rec.metadata.file_path,
               document |-> ids[j].rec.document] :
                  j \in {n \in 1..Len(ids) : ids[n].chunk_index < IdLogDepth}}

\* lines 172-207: one batch of the outer loop
StoreBatch ==
    /\ pc = "store_loop"
    /\ pd.batch_start < Len(pd.chunks)
    /\ LET name      == TargetCollection(pd.document_type)
           batch_end == Min2(pd.batch_start + BatchSize, Len(pd.chunks))
           st0       == [coll |-> Collection(name),
                         successful_chunks |-> pd.successful_chunks,
                         embed_failed |-> pd.embed_failed,
                         store_failed |-> pd.store_failed, order |-> pd.order,
                         ids |-> <<>>]
           st        == StoreBatchFrom(st0, pd, env, pd.batch_start, batch_end)
       IN  /\ pd' = [pd EXCEPT !.batch_start = @ + BatchSize,
                               !.successful_chunks = st.successful_chunks,
                               !.embed_failed = st.embed_failed,
                               !.store_failed = st.store_failed,
                               !.order = st.order]
           /\ IF name = "nec"
              THEN nec_collection' = st.coll /\ UNCHANGED wattmonk_collection
              ELSE wattmonk_collection' = st.coll /\ UNCHANGED nec_collection
           /\ id_log' = LogIds(id_log, st.ids)
    /\ UNCHANGED <<pc, caller, ct, env, ch, conversation_history, ingests, last_ingest, prev_ingest, ret>>

\* lines 209-210: process_document returns
ProcessReturn ==
    /\ pc = "store_loop"
    /\ pd.batch_start >= Len(pd.chunks)
    /\ pc' = "returned"
    /\ ret' = [op |-> "process_document", value |-> pd.successful_chunks > 0]
    /\ last_ingest' = IngestEntry(pd, pd.successful_chunks > 0,
                                  Collection(TargetCollection(pd.document_type)))
    /\ prev_ingest' = last_ingest
    /\ pd' = NoFrame
    /\ UNCHANGED <<caller, ct, env, ch, conversation_history, nec_collection, wattmonk_collection, ingests, id_log>>

\* the caller takes the returned value
Respond ==
    /\ pc = "returned"
    /\ pc' = "idle"
    /\ ret' = NoFrame
    /\ UNCHANGED <<caller, ct, pd, env, ch, conversation_history, nec_collection, wattmonk_collection,
                   ingests, last_ingest, prev_ingest, id_log>>

----------------------------------------------------------------------------
(* DocumentProcessor.search_documents *)

\* document_type = None
None == <<"None">>

\* the distance the store reports between two vectors (squared L2)
Distance(u, v) == (u[1] - v[1]) * (u[1] - v[1])

\* the positions, among those of rest, of the records of coll nearest to q
NearestAmong(coll, q, rest) ==
    LET ds == {Distance(q, coll[rest[i]].embedding) : i \in 1..Len(rest)}
        m  == CHOOSE d \in ds : \A e \in ds : d <= e
        IsNearest(j) == Distance(q, coll[j].embedding) = m
    IN  SelectSeq(rest, IsNearest)

\* the positions of the n records of coll nearest to q, nearest first;
\* records at the same distance come oldest first or newest first (tie)
RECURSIVE TopN(_, _, _, _, _)
TopN(coll, q, n, tie, rest) ==
    IF n = 0 \/ rest = <<>> THEN <<>>
    ELSE LET near == NearestAmong(coll, q, rest)
             j    == IF tie = "oldest_first" THEN near[1] ELSE near[Len(near)]
             IsOther(i) == i # j
         IN  <<j>> \o TopN(coll, q, n - 1, tie, SelectSeq(rest, IsOther))

\* collection.query(query_embeddings=[q], n_results=n): the library raises
\* on an empty vector and on an n that is not in 1..count
CollectionQuery(coll, q, n, tie, fault) ==
    IF fault = "query" \/ q = <<>> \/ n < 1 \/ n > Len(coll)
    THEN [raised |-> TRUE, records |-> <<>>, distances |-> <<>>]
    ELSE LET top == TopN(coll, q, n, tie, [j \in 1..Len(coll) |-> j])
         IN  [raised    |-> FALSE,
              records   |-> [i \in 1..Len(top) |-> coll[top[i]]],
              distances |-> [i \in 1..Len(top) |-> Distance(q, coll[top[i]].embedding)]]

\* line 248 with the query asking for n_results whatever the collection holds
QuerySizeUnclamped(n_results, count) == n_results

\* line 248: n_results of the query
QuerySize(n_results, count) == Min2(n_results, count)

\* line 242: whether the collection is skipped
IsEmptyCollection(count) == count = 0

\* lines 238-261: the search of one collection: the hits it adds to results
\* and the calls it makes on the collection.  A call that raises is caught
\* at line 260 and the collection adds nothing.
SearchCollection(name, coll, q, n_results, tie, fault) ==
    LET count     == Len(coll)
        countCall == [collection |-> name, call |-> "count", n_results |-> 0,
                      raised |-> fault = "count", returned |-> 0]
        res       == CollectionQuery(coll, q, QuerySize(n_results, count), tie, fault)
        queryCall == [collection |-> name, call |-> "query",
                      n_results |-> QuerySize(n_results, count),
                      raised |-> res.raised, returned |-> Len(res.records)]
    IN  IF fault = "count" THEN [hits |-> <<>>, calls |-> <<countCall>>]
        ELSE IF IsEmptyCollection(count) THEN [hits |-> <<>>, calls |-> <<countCall>>]
        ELSE [hits  |-> [i \in 1..Len(res.records) |->
                            [content    |-> res.records[i].document,
                             metadata   |-> res.records[i].metadata,
                             distance   |-> res.distances[i],
                             collection |-> name]],
              calls |-> <<countCall, queryCall>>]

\* line 263 left out: the hits in the order the collections gave them
Unsorted(hits) == hits

\* line 263: results.sort(key=distance), a stable sort
RECURSIVE SortByDistance(_)
SortByDistance(hits) ==
    IF hits = <<>> THEN <<>>
    ELSE LET ds == {hits[i].distance : i \in 1..Len(hits)}
             m  == CHOOSE d \in ds : \A e \in ds : d <= e
             IsMin(h)  == h.distance = m
             NotMin(h) == h.distance # m
         IN  SelectSeq(hits, IsMin) \o SortByDistance(SelectSeq(hits, NotMin))

\* the collections searched, were the conditions of lines 230 and 232 left
\* out
CollectionsToSearchUnfiltered(document_type) == <<"nec", "wattmonk">>

\* lines 229-233: the collections searched, in order
CollectionsToSearch(document_type) ==
    (IF document_type = None \/ IsNec(document_type) THEN <<"nec">> ELSE <<>>)
    \o (IF document_type = None \/ IsWattmonk(document_type) THEN <<"wattmonk">> ELSE <<>>)

\* the loop over the collections, were the handler of lines 260-261 missing:
\* a call that raises ends the search with no result (lines 267-269)
RECURSIVE SearchCollectionsAborting(_, _, _, _, _)
SearchCollectionsAborting(names, q, n_results, tie, fault) ==
    IF names = <<>> THEN [hits |-> <<>>, calls |-> <<>>, raised |-> FALSE]
    ELSE LET one    == SearchCollection(names[1], Collection(names[1]), q, n_results,
                                        tie, fault[names[1]])
             more   == SearchCollectionsAborting(Tail(names), q, n_results, tie, fault)
             raised == one.calls[Len(one.calls)].raised
         IN  [hits   |-> IF raised \/ more.raised THEN <<>> ELSE one.hits \o more.hits,
              calls  |-> IF raised THEN one.calls ELSE one.calls \o more.calls,
              raised |-> raised \/ more.raised]

\* lines 237-261: the loop over the collections to search
RECURSIVE SearchCollections(_, _, _, _, _)
SearchCollections(names, q, n_results, tie, fault) ==
    IF names = <<>> THEN [hits |-> <<>>, calls |-> <<>>]
    ELSE LET one  == SearchCollection(names[1], Collection(names[1]), q, n_results,
                                      tie, fault[names[1]])
             more == SearchCollections(Tail(names), q, n_results, tie, fault)
         IN  [hits |-> one.hits \o more.hits, calls |-> one.calls \o more.calls]

\* line 223 taking every vector as a success
NeverFailed(query_embedding) == FALSE

\* line 223: not query_embedding
EmbeddingFailed(query_embedding) == query_embedding = <<>>

\* what may go wrong in one search: the outcome of the embedding, and for
\* each collection the call that raises ("count", "query") or "ok"
SearchFaults(service) ==
    CASE service = "up"    -> {[embed |-> "primary", nec |-> "ok", wattmonk |-> "ok"]}
      [] service = "flaky" -> {[embed |-> o, nec |-> "ok", wattmonk |-> "ok"] :
                                   o \in {"fallback", "fail"}}
      [] service = "store_outage" ->
             {[embed |-> "primary", nec |-> "ok", wattmonk |-> "ok"],
              [embed |-> "primary", nec |-> "count", wattmonk |-> "ok"],
              [embed |-> "primary", nec |-> "ok", wattmonk |-> "query"]}
      [] service = "down"  -> {[embed |-> "fail", nec |-> "ok", wattmonk |-> "ok"]}

\* what may go wrong in one retrieval: as in a search, and the
\* collection.get() of keyword_search may raise ("get")
RetrieveFaults(service) ==
    SearchFaults(service)
    \cup (IF service = "store_outage"
          THEN {[embed |-> "primary", nec |-> "get", wattmonk |-> "ok"]} ELSE {})

\* lines 221-265: what search_documents returns, with the vector of the
\* query and the calls made on the embedding service and the collections
SearchResult(query, document_type, n_results, tie, fault) ==
    LET emb    == GenerateEmbeddings(fault.embed, query)
        found  == SearchCollections(CollectionsToSearch(document_type), emb.vector,
                                    n_results, tie, fault)
        sorted == SortByDistance(found.hits)
        failed == EmbeddingFailed(emb.vector)
    IN  [value |-> IF failed THEN <<>>
                   ELSE SubSeq(sorted, 1, Min2(n_results, Len(sorted))),
         query_embedding |-> emb.vector, embed_calls |-> emb.calls,
         store_calls |-> IF failed THEN <<>> ELSE found.calls]

\* what is kept of a search_documents call that returned r
SearchReturn(r, query, document_type, n_results, fault) ==
    [op |-> "search_documents", value |-> r.value,
     query |-> query, document_type |-> document_type,
     n_results |-> n_results, fault |-> fault,
     query_embedding |-> r.query_embedding,
     embed_calls |-> r.embed_calls, store_calls |-> r.store_calls]

\* lines 216-269: search_documents
SearchDocuments(query, document_type, n_results, tie, fault) ==
    /\ pc = "idle"
    /\ ret' = SearchReturn(SearchResult(query, document_type, n_results, tie, fault),
                           query, document_type, n_results, fault)
    /\ pc' = "returned"
    /\ UNCHANGED <<caller, ct, pd, env, ch, conversation_history, nec_collection, wattmonk_collection,
                   ingests, last_ingest, prev_ingest, id_log>>

----------------------------------------------------------------------------
(* DocumentProcessor.keyword_search *)

\* the keywords, were line 279 to keep every word
KeywordsUnfiltered(query) == Split(Lower(query))

\* lines 275-280: the keywords of a query
Keywords(query) ==
    LET IsLong(word) == SLen(word) > 2
    IN  SelectSeq(Split(Lower(query)), IsLong)

\* line 298: how many of the keywords occur in the document
MatchCount(keywords, doc) ==
    LET doc_lower == Lower(doc)
    IN  Cardinality({i \in 1..Len(keywords) : Contains(doc_lower, keywords[i])})

RECURSIVE Gcd(_, _)
Gcd(a, b) == IF b = 0 THEN a ELSE Gcd(b, a % b)

\* line 307: 1.0 - (match_count / len(keywords)), as the fraction
\* <<numerator, denominator>> in lowest terms
PseudoDistance(match_count, keyword_count) ==
    LET g == Gcd(keyword_count - match_count, keyword_count)
    IN  <<(keyword_count - match_count) \div g, keyword_count \div g>>

\* lines 290-315: the scan of one collection; a collection.get() that
\* raises is caught at line 313 and the collection adds nothing
KeywordScan(name, coll, keywords, fault) ==
    LET getCall == [collection |-> name, call |-> "get", n_results |-> 0,
                    raised |-> fault = "get", returned |-> Len(coll)]
        Hit(j)  == LET match_count == MatchCount(keywords, coll[j].document)
                   IN  [content  |-> coll[j].document,
                        metadata |-> coll[j].metadata,
                        collection |-> name,
                        distance |-> IF match_count > 0
                                     THEN PseudoDistance(match_count, Len(keywords))
                                     ELSE <<1, 1>>,
                        keyword_matches |-> match_count]
        Matches(h) == h.keyword_matches > 0
    IN  IF fault = "get" THEN [hits |-> <<>>, calls |-> <<getCall>>]
        ELSE [hits  |-> SelectSeq([j \in 1..Len(coll) |-> Hit(j)], Matches),
              calls |-> <<getCall>>]

\* lines 290-315: the loop over the collections to search
RECURSIVE KeywordScans(_, _, _)
KeywordScans(names, keywords, fault) ==
    IF names = <<>> THEN [hits |-> <<>>, calls |-> <<>>]
    ELSE LET one  == KeywordScan(names[1], Collection(names[1]), keywords,
                                 fault[names[1]])
             more == KeywordScans(Tail(names), keywords, fault)
         IN  [hits |-> one.hits \o more.hits, calls |-> one.calls \o more.calls]

\* the hits as the scan found them, were line 317 left out
Unranked(hits, match_count) == hits

\* line 317: results.sort(key=(-keyword_matches, distance)), a stable sort;
\* hits of one search with the same keyword_matches have the same distance,
\* so the hits come by descending keyword_matches, each group in its order
RECURSIVE SortByMatches(_, _)
SortByMatches(hits, match_count) ==
    IF match_count <= 0 THEN <<>>
    ELSE LET HasCount(h) == h.keyword_matches = match_count
         IN  SelectSeq(hits, HasCount) \o SortByMatches(hits, match_count - 1)

\* lines 273-319: what keyword_search returns and the calls it makes
KeywordResult(query, document_type, n_results, fault) ==
    LET keywords == Keywords(query)
        found    == KeywordScans(CollectionsToSearch(document_type), keywords, fault)
        sorted   == SortByMatches(found.hits, Len(keywords))
    IN  [value |-> SubSeq(sorted, 1, Min2(n_results, Len(sorted))),
         keywords |-> keywords, store_calls |-> found.calls]

\* what is kept of a keyword_search call that returned r
KeywordReturn(r, query, document_type, n_results, fault) ==
    [op |-> "keyword_search", value |-> r.value,
     query |-> query, document_type |-> document_type,
     n_results |-> n_results, fault |-> fault,
     keywords |-> r.keywords, store_calls |-> r.store_calls]

\* lines 271-323: keyword_search
KeywordSearch(query, document_type, n_results, fault) ==
    /\ pc = "idle"
    /\ ret' = KeywordReturn(KeywordResult(query, document_type, n_results, fault),
                            query, document_type, n_results, fault)
    /\ pc' = "returned"
    /\ UNCHANGED <<caller, ct, pd, env, ch, conversation_history, nec_collection, wattmonk_collection,
                   ingests, last_ingest, prev_ingest, id_log>>

----------------------------------------------------------------------------
(* RAGChatbot.retrieve_context *)

\* rag_chatbot.py lines 38-39
SpecificTerms == << Str(<<"z","i","p","p","y">>),
                    Str(<<"t","o","o","l">>),
                    Str(<<"a","u","t","o","m","a","t","i","o","n">>),
                    Str(<<"m","a","c","h","i","n","e"," ","l","e","a","r","n","i","n","g">>),
                    Str(<<"d","i","a","g","r","a","m","s">>) >>
HighPriorityTerms == << Str(<<"z","i","p","p","y">>) >>

\* any(term in query_lower for term in terms)
AnyTermIn(terms, query_lower) ==
    \E i \in 1..Len(terms) : Contains(query_lower, terms[i])

\* whether keyword search is tried, were line 47 not to look at the results
ShouldTryKeywordOnAnyTerm(query, results) ==
    AnyTermIn(SpecificTerms, Lower(query))

\* lines 42-49: whether keyword search is tried
ShouldTryKeyword(query, results) ==
    \/ AnyTermIn(HighPriorityTerms, Lower(query))
    \/ AnyTermIn(SpecificTerms, Lower(query)) /\ Len(results) < 2

\* the results of combined, were lines 55-61 to keep every one of them
AllResults(combined, seen) == combined

\* line 58: the key results are deduplicated by
ContentKey(result) == PySlice(result.content, 0, 100)

\* lines 55-61: the results of combined whose key is not in seen and did
\* not occur earlier in combined
RECURSIVE UniqueResults(_, _)
UniqueResults(combined, seen) ==
    IF combined = <<>> THEN <<>>
    ELSE IF ContentKey(combined[1]) \in seen
    THEN UniqueResults(Tail(combined), seen)
    ELSE <<combined[1]>>
         \o UniqueResults(Tail(combined), seen \cup {ContentKey(combined[1])})

\* what retrieve_context would make of them, were line 54 to put the
\* semantic results first
MergedSemanticFirst(semantic, tried, keyword, n_results) ==
    [value |-> IF tried
               THEN SubSeq(UniqueResults(semantic.value \o keyword.value, {}), 1,
                           Min2(n_results,
                                Len(UniqueResults(semantic.value \o keyword.value, {}))))
               ELSE semantic.value,
     results |-> semantic.value,
     keyword_called |-> tried,
     keyword_results |-> IF tried THEN keyword.value ELSE <<>>,
     embed_calls |-> semantic.embed_calls,
     store_calls |-> semantic.store_calls
                     \o (IF tried THEN keyword.store_calls ELSE <<>>)]

\* lines 51-65: what retrieve_context makes of the results of the semantic
\* search and, when keyword search is tried, of those of the keyword search
MergedResults(semantic, tried, keyword, n_results) ==
    [value |-> IF tried
               THEN SubSeq(UniqueResults(keyword.value \o semantic.value, {}), 1,
                           Min2(n_results,
                                Len(UniqueResults(keyword.value \o semantic.value, {}))))
               ELSE semantic.value,
     results |-> semantic.value,
     keyword_called |-> tried,
     keyword_results |-> IF tried THEN keyword.value ELSE <<>>,
     embed_calls |-> semantic.embed_calls,
     store_calls |-> semantic.store_calls
                     \o (IF tried THEN keyword.store_calls ELSE <<>>)]

\* lines 36-52: the semantic search is followed by the keyword search when
\* ShouldTryKeyword says so
RetrieveAfterSearch(semantic, query, document_type, n_results, fault) ==
    MergedResults(semantic, ShouldTryKeyword(query, semantic.value),
                  KeywordResult(query, document_type, n_results, fault), n_results)

\* lines 36-65: what retrieve_context returns, with what the two searches
\* returned and the calls made
RetrieveResult(query, document_type, n_results, tie, fault) ==
    RetrieveAfterSearch(SearchResult(query, document_type, n_results, tie, fault),
                        query, document_type, n_results, fault)

\* what is kept of a retrieve_context call that returned r
RetrieveReturn(r, query, document_type, n_results, fault) ==
    [op |-> "retrieve_context", value |-> r.value,
     query |-> query, document_type |-> document_type,
     n_results |-> n_results, fault |-> fault,
     results |-> r.results, keyword_called |-> r.keyword_called,
     keyword_results |-> r.keyword_results,
     embed_calls |-> r.embed_calls, store_calls |-> r.store_calls]

\* lines 35-65: retrieve_context
RetrieveContext(query, document_type, n_results, tie, fault) ==
    /\ pc = "idle"
    /\ ret' = RetrieveReturn(RetrieveResult(query, document_type, n_results, tie, fault),
                             query, document_type, n_results, fault)
    /\ pc' = "returned"
    /\ UNCHANGED <<caller, ct, pd, env, ch, conversation_history, nec_collection, wattmonk_collection,
                   ingests, last_ingest, prev_ingest, id_log>>

----------------------------------------------------------------------------
(* RAGChatbot.classify_intent *)

\* rag_chatbot.py line 17
NecKeywords == << Str(<<"n","e","c">>),
                   Str(<<"e","l","e","c","t","r","i","c","a","l"," ","c","o","d","e">>),
                   Str(<<"e","l","e","c","t","r","i","c","a","l"," ","s","t","a","n","d","a","r","d">>),
                   Str(<<"w","i","r","i","n","g">>),
                   Str(<<"c","i","r","c","u","i","t">>),
                   Str(<<"v","o","l","t","a","g","e">>),
                   Str(<<"a","m","p","e","r","a","g","e">>),
                   Str(<<"g","r","o","u","n","d","i","n","g">>),
                   Str(<<"e","l","e","c","t","r","i","c","a","l"," ","s","a","f","e","t","y">>) >>
\* line 18
WattmonkKeywords == << Str(<<"w","a","t","t","m","o","n","k">>),
                        Str(<<"c","o","m","p","a","n","y">>),
                        Str(<<"s","e","r","v","i","c","e">>),
                        Str(<<"s","o","l","a","r"," ","d","e","s","i","g","n">>),
                        Str(<<"p","e","r","m","i","t","t","i","n","g">>),
                        Str(<<"z","i","p","p","y">>),
                        Str(<<"s","i","t","e"," ","s","u","r","v","e","y">>),
                        Str(<<"s","o","l","a","r">>),
                        Str(<<"e","n","g","i","n","e","e","r","i","n","g">>),
                        Str(<<"p","l","a","t","f","o","r","m">>),
                        Str(<<"t","o","o","l">>),
                        Str(<<"a","u","t","o","m","a","t","i","o","n">>) >>

\* lines 22-23: how many of the keywords occur in the lower-cased query
Score(keywords, query_lower) ==
    Cardinality({i \in 1..Len(keywords) : Contains(query_lower, keywords[i])})

\* the dictionary classify_intent returns for a corpus
CorpusIntent(name, confidence) ==
    [intent |-> name, confidence |-> confidence,
     document_type |-> IF name = "nec" THEN Str(<<"n","e","c">>)
                       ELSE Str(<<"w","a","t","t","m","o","n","k">>)]
\* line 33
GeneralIntent == [intent |-> "general", confidence |-> 0, document_type |-> None]

\* lines 24-33, were every corpus to win with confidence 1
ClassifyFlat(query_lower, nec_score, wattmonk_score) ==
    IF nec_score > wattmonk_score /\ nec_score > 0
    THEN CorpusIntent("nec", 1)
    ELSE IF wattmonk_score > nec_score /\ wattmonk_score > 0
    THEN CorpusIntent("wattmonk", 1)
    ELSE IF \/ Contains(query_lower, Str(<<"n","e","c">>))
            \/ Contains(query_lower, Str(<<"e","l","e","c","t","r","i","c","a","l">>))
    THEN CorpusIntent("nec", 1)
    ELSE IF \/ Contains(query_lower, Str(<<"w","a","t","t","m","o","n","k">>))
            \/ Contains(query_lower, Str(<<"c","o","m","p","a","n","y">>))
    THEN CorpusIntent("wattmonk", 1)
    ELSE GeneralIntent

\* lines 24-33, were lines 28 and 30 to look for one term each
ClassifySingleAnchors(query_lower, nec_score, wattmonk_score) ==
    IF nec_score > wattmonk_score /\ nec_score > 0
    THEN CorpusIntent("nec", nec_score)
    ELSE IF wattmonk_score > nec_score /\ wattmonk_score > 0
    THEN CorpusIntent("wattmonk", wattmonk_score)
    ELSE IF Contains(query_lower, Str(<<"n","e","c">>))
    THEN CorpusIntent("nec", 1)
    ELSE IF Contains(query_lower, Str(<<"w","a","t","t","m","o","n","k">>))
    THEN CorpusIntent("wattmonk", 1)
    ELSE GeneralIntent

\* lines 24-33: the branches of classify_intent
ClassifyByScores(query_lower, nec_score, wattmonk_score) ==
    IF nec_score > wattmonk_score /\ nec_score > 0
    THEN CorpusIntent("nec", nec_score)
    ELSE IF wattmonk_score > nec_score /\ wattmonk_score > 0
    THEN CorpusIntent("wattmonk", wattmonk_score)
    ELSE IF \/ Contains(query_lower, Str(<<"n","e","c">>))
            \/ Contains(query_lower, Str(<<"e","l","e","c","t","r","i","c","a","l">>))
    THEN CorpusIntent("nec", 1)
    ELSE IF \/ Contains(query_lower, Str(<<"w","a","t","t","m","o","n","k">>))
            \/ Contains(query_lower, Str(<<"c","o","m","p","a","n","y">>))
    THEN CorpusIntent("wattmonk", 1)
    ELSE GeneralIntent

\* classify_intent, were line 20 to leave the query as it is
ClassifyIntentCaseSensitive(query) ==
    ClassifyByScores(query, Score(NecKeywords, query), Score(WattmonkKeywords, query))

\* lines 16-33: classify_intent
ClassifyIntent(query) ==
    ClassifyByScores(Lower(query), Score(NecKeywords, Lower(query)),
                     Score(WattmonkKeywords, Lower(query)))

\* a call of classify_intent
ClassifyIntentCall(query) ==
    /\ pc = "idle"
    /\ ret' = [op |-> "classify_intent", query |-> query,
               value |-> ClassifyIntent(query)]
    /\ pc' = "returned"
    /\ UNCHANGED <<caller, ct, pd, env, ch, conversation_history, nec_collection, wattmonk_collection,
                   ingests, last_ingest, prev_ingest, id_log>>

----------------------------------------------------------------------------
(* RAGChatbot.format_context and generate_response *)

\* lines 74-80: the block of the i-th result
SourceBlock(result, i) ==
    Cat(Str(<<"[","S","o","u","r","c","e"," ">>),
    Cat(Decimal(i),
    Cat(Str(<<":"," ">>),
    Cat(result.metadata.source,
    Cat(Str(<<" ","(">>),
    Cat(Upper(result.metadata.document_type),
    Cat(Str(<<")","]","\n">>),
    Cat(result.content, Str(<<"\n","\n">>)))))))))

RECURSIVE SourceBlocks(_, _)
SourceBlocks(context_results, i) ==
    IF i > Len(context_results) THEN <<>>
    ELSE Cat(SourceBlock(context_results[i], i), SourceBlocks(context_results, i + 1))

\* lines 67-82: format_context
FormatContext(context_results) ==
    IF context_results = <<>> THEN <<>>
    ELSE Cat(Str(<<"R","e","l","e","v","a","n","t"," ","i","n","f","o","r","m","a","t","i","o","n"," ","f","r","o","m"," ",
                   "k","n","o","w","l","e","d","g","e"," ","b","a","s","e",":","\n","\n">>),
             SourceBlocks(context_results, 1))

\* line 126: len(context.split("[Source")) - 1, the occurrences of "[Source"
\* in the context
SourceMarks(context) ==
    LET mark == <<"[","S","o","u","r","c","e">>
    IN  Cardinality({j \in 1..(Len(context) - 6) :
            \A i \in 1..7 : /\ context[j + i - 1][1] = mark[i]
                            /\ i \in 2..6 => context[j + i - 1][2] = 1})

\* lines 88-116: which of the three prompts is built
PromptKind(context, intent_info) ==
    IF intent_info.intent \in {"nec", "wattmonk"}
    THEN (IF context # <<>> THEN "with_context" ELSE "without_context")
    ELSE "general"

\* generate_response, were its handler at line 130 to report the sources of
\* the context it was given
GenerateResponseKeepingSources(query, context, intent_info, outcome) ==
    [response |-> IF outcome = "ok" THEN "answer" ELSE "apology",
     prompt |-> PromptKind(context, intent_info),
     generated |-> outcome = "ok",
     intent |-> IF outcome = "ok" THEN intent_info.intent ELSE "error",
     sources_used |-> IF context # <<>> THEN SourceMarks(context) ELSE 0,
     has_context |-> context # <<>>]

\* lines 84-137: generate_response; generate_content answers or raises, and
\* the handler at line 130 turns the exception into an apology
GenerateResponse(query, context, intent_info, outcome) ==
    IF outcome = "ok"
    THEN [response |-> "answer", prompt |-> PromptKind(context, intent_info),
          generated |-> TRUE,
          intent |-> intent_info.intent,
          sources_used |-> IF context # <<>> THEN SourceMarks(context) ELSE 0,
          has_context |-> context # <<>>]
    ELSE [response |-> "apology", prompt |-> PromptKind(context, intent_info),
          generated |-> FALSE,
          intent |-> "error", sources_used |-> 0, has_context |-> FALSE]

----------------------------------------------------------------------------
(* RAGChatbot.chat *)

\* line 154 running the retrieval whatever the intent
AlwaysNeedsContext(intent_info) == TRUE

\* line 154: if intent_info["intent"] in ["nec", "wattmonk"]
NeedsContext(intent_info) == intent_info.intent \in {"nec", "wattmonk"}

\* lines 142-146, 167-172: conversation_history after the append, which is
\* made when maintain_history is set (timestamps left out)
\* the history, were every entry appended whatever maintain_history is
RememberAlways(history, maintain_history, entry) == Append(history, entry)

\* lines 142-147, 170-175, 189-194: append the entry if maintain_history
Remember(history, maintain_history, entry) ==
    IF maintain_history THEN Append(history, entry) ELSE history

\* classify_intent raises at line 20 on a query that has no lower(): one
\* that is not a string
Raises(query) == query = None

\* lines 149-154: where chat goes after classify_intent
AfterClassify(query) ==
    IF Raises(query) THEN "chat_except"
    ELSE IF NeedsContext(ClassifyIntent(query)) THEN "chat_retrieve"
    ELSE "chat_generate"

\* lines 141-154: chat up to its test of the intent; the history is kept
\* while it stays within limit entries
Chat(query, maintain_history, limit) ==
    /\ pc = "idle"
    /\ maintain_history => Len(conversation_history) + 2 <= limit
    /\ conversation_history' = Remember(conversation_history, maintain_history,
                                        [type |-> "user", user_query |-> query])
    /\ ch' = [query |-> query, maintain_history |-> maintain_history,
              intent_info |-> IF Raises(query) THEN NoFrame ELSE ClassifyIntent(query),
              context_results |-> <<>>, context_text |-> <<>>,
              calls |-> <<"classify_intent">>, filter |-> None,
              embed_calls |-> <<>>, store_calls |-> <<>>]
    /\ pc' = AfterClassify(query)
    /\ UNCHANGED <<caller, ct, pd, env, nec_collection, wattmonk_collection,
                   ingests, last_ingest, prev_ingest, id_log, ret>>

\* chat's frame after retrieve_context has returned r
ChatRetrieved(f, r) ==
    [f EXCEPT !.context_results = r.value,
              !.context_text = FormatContext(r.value),
              !.calls = f.calls \o <<"retrieve_context", "format_context">>,
              !.filter = f.intent_info.document_type,
              !.embed_calls = r.embed_calls,
              !.store_calls = r.store_calls]

\* lines 155-156: retrieve_context(query, intent_info["document_type"]) and
\* format_context
ChatRetrieve(tie, fault) ==
    /\ pc = "chat_retrieve"
    /\ ch' = ChatRetrieved(ch, RetrieveResult(ch.query, ch.intent_info.document_type,
                                              DefaultNResults, tie, fault))
    /\ pc' = "chat_generate"
    /\ UNCHANGED <<caller, ct, pd, env, conversation_history, nec_collection,
                   wattmonk_collection, ingests, last_ingest, prev_ingest, id_log, ret>>

\* lines 159-167: the dictionary chat returns
ChatResponse(f, response_info) ==
    [query |-> f.query, response |-> response_info.response,
     intent |-> f.intent_info, context_used |-> f.context_results,
     sources_count |-> response_info.sources_used,
     has_context |-> response_info.has_context]

\* what is kept of a chat call that returned value
ChatReturn(f, value, response_info) ==
    [op |-> "chat", value |-> value, maintain_history |-> f.maintain_history,
     calls |-> f.calls \o <<"generate_response">>, filter |-> f.filter,
     prompt |-> response_info.prompt, generated |-> response_info.generated,
     excepted |-> FALSE,
     embed_calls |-> f.embed_calls, store_calls |-> f.store_calls]

\* chat from line 158 once generate_response has returned response_info
ChatFinish(response_info) ==
    /\ ret' = ChatReturn(ch, ChatResponse(ch, response_info), response_info)
    /\ conversation_history' =
           Remember(conversation_history, ch.maintain_history,
                    [type |-> "bot", bot_response |-> ChatResponse(ch, response_info)])

\* lines 158-176: generate_response, the response and its entry in the history
ChatGenerate(outcome) ==
    /\ pc = "chat_generate"
    /\ ChatFinish(GenerateResponse(ch.query, ch.context_text, ch.intent_info, outcome))
    /\ ch' = NoFrame
    /\ pc' = "returned"
    /\ UNCHANGED <<caller, ct, pd, env, nec_collection, wattmonk_collection,
                   ingests, last_ingest, prev_ingest, id_log>>

\* lines 179-187: the dictionary chat returns from its handler
ErrorResponse(f) ==
    [query |-> f.query, response |-> "apology",
     intent |-> [intent |-> "error", confidence |-> 0],
     context_used |-> <<>>, sources_count |-> 0, has_context |-> FALSE]

\* lines 178-197: the handler of chat, entered when a step has raised
ChatExcept ==
    /\ pc = "chat_except"
    /\ ret' = [op |-> "chat", value |-> ErrorResponse(ch),
               maintain_history |-> ch.maintain_history,
               calls |-> ch.calls, filter |-> ch.filter, prompt |-> "none",
               generated |-> FALSE, excepted |-> TRUE,
               embed_calls |-> ch.embed_calls, store_calls |-> ch.store_calls]
    /\ conversation_history' =
           Remember(conversation_history, ch.maintain_history,
                    [type |-> "bot", bot_response |-> ErrorResponse(ch)])
    /\ ch' = NoFrame
    /\ pc' = "returned"
    /\ UNCHANGED <<caller, ct, pd, env, nec_collection, wattmonk_collection,
                   ingests, last_ingest, prev_ingest, id_log>>

----------------------------------------------------------------------------
(* RAGChatbot.search_knowledge_base and the conversation history *)

\* lines 204-211: the dictionary made of one result; relevance_score is
\* 1 - distance, kept as the distance it is computed from
FormattedResult(result) ==
    [content |-> result.content, source |-> result.metadata.source,
     document_type |-> result.metadata.document_type,
     distance |-> result.distance,
     chunk_index |-> result.metadata.chunk_index]

\* lines 201-213: what search_knowledge_base makes of what retrieve_context
\* returned
KnowledgeBaseReturn(r, query, document_type, n_results, fault) ==
    [op |-> "search_knowledge_base",
     value |-> [i \in 1..Len(r.value) |-> FormattedResult(r.value[i])],
     query |-> query, document_type |-> document_type,
     n_results |-> n_results, fault |-> fault]

\* lines 199-213: search_knowledge_base
SearchKnowledgeBase(query, document_type, n_results, tie, fault) ==
    /\ pc = "idle"
    /\ ret' = KnowledgeBaseReturn(RetrieveResult(query, document_type, n_results,
                                                 tie, fault),
                                  query, document_type, n_results, fault)
    /\ pc' = "returned"
    /\ UNCHANGED <<caller, ct, pd, env, ch, conversation_history, nec_collection,
                   wattmonk_collection, ingests, last_ingest, prev_ingest, id_log>>

\* line 217: conversation_history[-limit:] if limit > 0 else the whole of it
LastEntries(history, limit) ==
    IF limit > 0
    THEN SubSeq(history, Max2(1, Len(history) - limit + 1), Len(history))
    ELSE history

\* lines 215-217: get_conversation_history
GetConversationHistory(limit) ==
    /\ pc = "idle"
    /\ ret' = [op |-> "get_conversation_history", limit |-> limit,
               value |-> LastEntries(conversation_history, limit)]
    /\ pc' = "returned"
    /\ UNCHANGED <<caller, ct, pd, env, ch, conversation_history, nec_collection,
                   wattmonk_collection, ingests, last_ingest, prev_ingest, id_log>>

\* lines 219-221: clear_conversation_history
ClearConversationHistory ==
    /\ pc = "idle"
    /\ conversation_history' = <<>>
    /\ ret' = [op |-> "clear_conversation_history", value |-> None]
    /\ pc' = "returned"
    /\ UNCHANGED <<caller, ct, pd, env, ch, nec_collection, wattmonk_collection,
                   ingests, last_ingest, prev_ingest, id_log>>

----------------------------------------------------------------------------
(* Specifications *)

\* after DocumentProcessor.__init__ on a fresh database
Init ==
    /\ pc = "idle"
    /\ caller = "direct"
    /\ ct = NoFrame
    /\ pd = NoFrame
    /\ env \in Environments
    /\ nec_collection = <<>>
    /\ wattmonk_collection = <<>>
    /\ ingests = 0
    /\ last_ingest = NoFrame
    /\ prev_ingest = NoFrame
    /\ id_log = {}
    /\ ret = NoFrame
    /\ ch = NoFrame
    /\ conversation_history = <<>>

\* ingestion, as the program's callers use it
Next ==
    \/ \E call \in InitCalls, file \in Files : InitializeDocuments(call, file, MaxIngests)
    \/ \E label \in UploadLabels, file \in UploadFiles : UploadDocument(label, file, MaxIngests)
    \/ ChunkRun
    \/ ChunkReturnIngest
    \/ StoreBatch
    \/ ProcessReturn
    \/ Respond

Spec == Init /\ [][Next]_vars

\* chunk_text on its own, over every drawn text, chunk size, overlap and
\* maximum
ChunkInit ==
    /\ Init
    /\ env = [service |-> "up", add_existing |-> "overwrite"]

ChunkNext ==
    \/ \E text \in DirectTexts, chunk_size \in ChunkSizes, max_chunks \in 0..MaxDirectChunks :
         \E overlap \in Overlaps(chunk_size) : ChunkText(text, chunk_size, overlap, max_chunks)
    \/ ChunkLoop
    \/ ChunkReturnDirect
    \/ Respond

ChunkSpec == ChunkInit /\ [][ChunkNext]_vars

\* searches over what ingestion has stored
SearchInit ==
    /\ Init
    /\ env.add_existing = "ignore"

SearchNext ==
    \/ \E call \in SearchCalls :
         InitializeDocuments(<<call[1], call[2]>>, call[3], MaxSearchIngests)
    \/ ChunkRun
    \/ ChunkReturnIngest
    \/ StoreBatch
    \/ ProcessReturn
    \/ \E query \in Queries, document_type \in SearchTypes, n_results \in 1..MaxK,
          tie \in TieOrders :
         \E fault \in SearchFaults(env.service) :
            SearchDocuments(query, document_type, n_results, tie, fault)
    \/ Respond

SearchSpec == SearchInit /\ [][SearchNext]_vars

\* keyword searches and retrievals over what ingestion has stored
RetrieveNext ==
    \/ \E call \in RetrieveCalls :
         InitializeDocuments(<<call[1], call[2]>>, call[3], MaxRetrieveIngests)
    \/ ChunkRun
    \/ ChunkReturnIngest
    \/ StoreBatch
    \/ ProcessReturn
    \/ \E query \in RetrieveQueries, document_type \in SearchTypes, n_results \in 1..MaxK :
         \E fault \in RetrieveFaults(env.service) :
            KeywordSearch(query, document_type, n_results, fault)
    \/ \E query \in RetrieveQueries, document_type \in SearchTypes, n_results \in 1..MaxK,
          tie \in TieOrders :
         \E fault \in RetrieveFaults(env.service) :
            RetrieveContext(query, document_type, n_results, tie, fault)
    \/ Respond

RetrieveSpec == SearchInit /\ [][RetrieveNext]_vars

\* classify_intent on its own, over every drawn query
ClassifyNext ==
    \/ \E query \in IntentQueries : ClassifyIntentCall(query)
    \/ Respond

ClassifySpec == ChunkInit /\ [][ClassifyNext]_vars

\* chats over what ingestion has stored
ChatNext ==
    \/ \E call \in ChatCalls :
         InitializeDocuments(<<call[1], call[2]>>, call[3], MaxChatIngests)
    \/ ChunkRun
    \/ ChunkReturnIngest
    \/ StoreBatch
    \/ ProcessReturn
    \/ \E query \in ChatQueries, maintain_history \in BOOLEAN :
         Chat(query, maintain_history, MaxHistory)
    \/ \E tie \in TieOrders : \E fault \in RetrieveFaults(env.service) :
         ChatRetrieve(tie, fault)
    \/ \E outcome \in {"ok", "raise"} : ChatGenerate(outcome)
    \/ ChatExcept
    \/ Respond

ChatSpec == SearchInit /\ [][ChatNext]_vars

\* The calls a client makes on the chatbot through main.py's endpoints
\* /chat, /search and /conversation-history, before any document is ingested
HistoryNext ==
    \/ \E query \in ChatQueries, maintain_history \in BOOLEAN :
         Chat(query, maintain_history, MaxLogLength)
    \/ \E tie \in TieOrders : \E fault \in RetrieveFaults(env.service) :
         ChatRetrieve(tie, fault)
    \/ \E outcome \in {"ok", "raise"} : ChatGenerate(outcome)
    \/ ChatExcept
    \/ \E query \in RetrieveQueries, document_type \in SearchTypes, n_results \in 1..MaxK,
          tie \in TieOrders :
         \E fault \in RetrieveFaults(env.service) :
            SearchKnowledgeBase(query, document_type, n_results, tie, fault)
    \/ \E limit \in HistoryLimits : GetConversationHistory(limit)
    \/ ClearConversationHistory
    \/ Respond

HistorySpec == ChunkInit /\ [][HistoryNext]_vars

----------------------------------------------------------------------------
(* Properties of chunk_text *)

\* C1: whenever chunk_text is about to run an iteration of its loop, the
\* iteration leaves the cursor start strictly greater than it found it, for
\* every text, every chunk_size >= 1 and every overlap >= 0 (so the loop
\* cannot revisit a window or run forever).
CursorStrictlyAdvances ==
    (pc = "chunk_loop" /\ LoopCond(ct)) => NextStart(ct) > ct.start

\* C10: at every point of chunk_text's loop, and in what it returns, the
\* number of chunks is at most max_chunks.
ChunkCountBounded ==
    /\ pc = "chunk_loop" => Len(ct.chunks) <= ct.max_chunks
    /\ (pc = "returned" /\ ret.op = "chunk_text") =>
           /\ Len(ret.value) <= ret.frame.max_chunks
           /\ ret.value = ret.frame.chunks

\* chunk_text has returned max_chunks >= 2 chunks with text still ahead of
\* the cursor: the cap, not the end of the text, ended the loop
CapEndedLoop ==
    /\ pc = "returned"
    /\ ret.op = "chunk_text"
    /\ ret.frame.max_chunks >= 2
    /\ Len(ret.value) = ret.frame.max_chunks
    /\ ret.frame.start < ret.frame.text_length

\* C11 as stated: an iteration of chunk_text's loop discards its candidate
\* exactly when the candidate, trimmed, is shorter than the minimum length
\* of 100 (one of length 100 or more is appended), and no returned chunk is
\* shorter than 100.
CandidateKeptFromMinimum ==
    /\ (pc = "chunk_loop" /\ LoopCond(ct)) =>
           ChunkIter(ct).chunks =
               IF SLen(Candidate(ct)) >= MinChunkLen
               THEN Append(ct.chunks, Candidate(ct)) ELSE ct.chunks
    /\ (pc = "returned" /\ ret.op = "chunk_text") =>
           \A i \in 1..Len(ret.value) : SLen(ret.value[i]) >= MinChunkLen

\* C11: an iteration of chunk_text's loop discards its candidate exactly
\* when the candidate, trimmed, is no longer than 100 characters (one of
\* length 101 or more is appended, one of length 100 is not), and every
\* returned chunk is longer than 100.
CandidateKeptAboveMinimum ==
    /\ (pc = "chunk_loop" /\ LoopCond(ct)) =>
           ChunkIter(ct).chunks =
               IF SLen(Candidate(ct)) > MinChunkLen
               THEN Append(ct.chunks, Candidate(ct)) ELSE ct.chunks
    /\ (pc = "returned" /\ ret.op = "chunk_text") =>
           \A i \in 1..Len(ret.value) : SLen(ret.value[i]) > MinChunkLen

\* the loop is about to run over a candidate of exactly the minimum length,
\* which the iteration does not append
MinimumLengthCandidateDropped ==
    /\ pc = "chunk_loop"
    /\ LoopCond(ct)
    /\ SLen(Candidate(ct)) = MinChunkLen
    /\ ChunkIter(ct).chunks = ct.chunks

\* C12: for every window whose right edge start + chunk_size falls before
\* the end of the text, the first and the later ones: when the last '.' or
\* newline of the window lies no earlier than half the chunk size after the
\* window's start, the chunk ends right after that character, and otherwise
\* at the window's right edge.
ChunkEndsAfterLastBreak ==
    (/\ pc = "chunk_loop"
     /\ LoopCond(ct)
     /\ ct.start >= 0
     /\ ct.start + ct.chunk_size < ct.text_length) =>
        LET window == PySlice(ct.text, ct.start, ct.start + ct.chunk_size)
            offset == Max2(RFind(window, "."), RFind(window, "\n"))
        IN  IF offset >= 0 /\ 2 * offset >= ct.chunk_size
            THEN ChunkEnd(ct) = ct.start + offset + 1
            ELSE ChunkEnd(ct) = ct.start + ct.chunk_size

----------------------------------------------------------------------------
(* Properties of process_document *)

\* C2: process_document always returns: while it is in chunk_text's loop
\* and the loop condition holds, the iteration it runs changes the loop's
\* state (an iteration that changes nothing is repeated for ever, and the
\* call returns no boolean), for every file, very short texts included.
ProcessDocumentLoopProgresses ==
    (pc = "chunk_loop" /\ caller = "process_document" /\ LoopCond(ct)) =>
        ChunkIter(ct) # ct

\* the last two process_document calls to return were given the same
\* file path, file content and document type, and no embedding call of
\* either failed
SameFileTwice ==
    /\ last_ingest # NoFrame
    /\ prev_ingest # NoFrame
    /\ last_ingest.file_path = prev_ingest.file_path
    /\ last_ingest.text = prev_ingest.text
    /\ last_ingest.document_type = prev_ingest.document_type
    /\ ~last_ingest.embed_failed
    /\ ~prev_ingest.embed_failed

ChunkIdSeparatesContent ==
    \A a, b \in id_log :
        (a.file_path = b.file_path /\ a.chunk_index = b.chunk_index) =>
            (a.id = b.id <=> a.document = b.document)

EmbeddingsGiven(i, chunk) ==
    {GenerateEmbeddings(EmbedOutcome(env.service, c, i), chunk).vector : c \in 1..ingests}

\* C9: every stored record has a non-empty text and a non-empty embedding,
\* which is a vector the embedding service returned for its chunk; a chunk
\* for which both models failed has no record.
RecordsAreEmbedded ==
    \A name \in {"nec", "wattmonk"} : \A j \in 1..Len(Collection(name)) :
        LET rec == Collection(name)[j]
        IN  /\ rec.document # <<>>
            /\ rec.embedding # <<>>
            /\ rec.embedding \in EmbeddingsGiven(rec.metadata.chunk_index, rec.document)

\* a process_document call has returned True although embeddings failed:
\* the collection holds records of the file, fewer than the chunks
EmbeddingFailuresDropped ==
    /\ last_ingest # NoFrame
    /\ last_ingest.embed_failed
    /\ last_ingest.value
    /\ last_ingest.file_count > 0
    /\ last_ingest.file_count < last_ingest.attempted

----------------------------------------------------------------------------
(* Properties of search_documents *)

\* search_documents has just returned
SearchReturned == pc = "returned" /\ ret.op = "search_documents"

\* the names of the collections a search with this document_type selects
Selected(document_type) ==
    {CollectionsToSearch(document_type)[i] :
        i \in 1..Len(CollectionsToSearch(document_type))}

\* the hits of a result that are tagged with collection name
Tagged(hits, name) ==
    LET IsTagged(h) == h.collection = name
    IN  SelectSeq(hits, IsTagged)

\* C3: when the query embedding succeeded and no collection call failed,
\* the result of search_documents is sorted by non-decreasing distance, has
\* min(k, records in the selected collections) hits, every hit is a record
\* of the selected collection it is tagged with at that record's distance,
\* no record is returned twice, and no record left out is nearer to the
\* query than a returned one.
SearchReturnsNearest ==
    (/\ SearchReturned
     /\ ret.query_embedding # <<>>
     /\ ret.fault.nec = "ok" /\ ret.fault.wattmonk = "ok") =>
        LET R     == ret.value
            q     == ret.query_embedding
            sel   == Selected(ret.document_type)
            total == (IF "nec" \in sel THEN Len(nec_collection) ELSE 0)
                     + (IF "wattmonk" \in sel THEN Len(wattmonk_collection) ELSE 0)
            IsHit(name, rec) ==
                \E i \in 1..Len(R) : /\ R[i].collection = name
                                      /\ R[i].content = rec.document
                                      /\ R[i].metadata = rec.metadata
        IN  /\ \A i \in 1..(Len(R) - 1) : R[i].distance <= R[i + 1].distance
            /\ Len(R) = Min2(ret.n_results, total)
            /\ \A i, j \in 1..Len(R) : i # j => R[i] # R[j]
            /\ \A i \in 1..Len(R) :
                   /\ R[i].collection \in sel
                   /\ \E j \in 1..Len(Collection(R[i].collection)) :
                         LET rec == Collection(R[i].collection)[j]
                         IN  /\ rec.document = R[i].content
                             /\ rec.metadata = R[i].metadata
                             /\ Distance(q, rec.embedding) = R[i].distance
            /\ \A name \in sel : \A j \in 1..Len(Collection(name)) :
                   ~IsHit(name, Collection(name)[j]) =>
                       \A i \in 1..Len(R) :
                           R[i].distance <= Distance(q, Collection(name)[j].embedding)

\* a search of both collections returned fewer hits than they hold, and its
\* nearest hit came from the collection searched second
MergedAcrossCollections ==
    /\ SearchReturned
    /\ ret.fault = [embed |-> "primary", nec |-> "ok", wattmonk |-> "ok"]
    /\ ret.document_type = None
    /\ Len(ret.value) = 2
    /\ Len(nec_collection) > 2 /\ Len(wattmonk_collection) > 2
    /\ ret.value[1].collection = "wattmonk"
    /\ ret.value[2].collection = "nec"
    /\ ret.value[1].distance < ret.value[2].distance

\* C4: for every selected collection whose calls do not fail, holding n
\* records: with n = 0 it is counted but not queried and no hit is tagged
\* with it (the result is empty when it is the only one selected); with
\* n > 0 it is queried once, for min(k, n) records, the query does not raise
\* and returns min(k, n) records (so n, not k, when k > n), which is the
\* length of the result when it is the only one selected.
SearchRespectsCollectionSize ==
    (SearchReturned /\ ret.query_embedding # <<>>) =>
        \A name \in Selected(ret.document_type) :
            ret.fault[name] = "ok" =>
                LET n       == Len(Collection(name))
                    k       == ret.n_results
                    sole    == Selected(ret.document_type) = {name}
                    IsQuery(c) == c.collection = name /\ c.call = "query"
                    queries == SelectSeq(ret.store_calls, IsQuery)
                IN  IF n = 0
                    THEN /\ queries = <<>>
                         /\ Tagged(ret.value, name) = <<>>
                         /\ sole => ret.value = <<>>
                    ELSE /\ Len(queries) = 1
                         /\ ~queries[1].raised
                         /\ queries[1].n_results = Min2(k, n)
                         /\ queries[1].returned = Min2(k, n)
                         /\ sole => Len(ret.value) = Min2(k, n)

\* a search of both collections for more records than the nec collection
\* holds, the wattmonk collection being empty: every record of the first is
\* returned and the second is skipped
SmallAndEmptyCollection ==
    /\ SearchReturned
    /\ ret.fault = [embed |-> "primary", nec |-> "ok", wattmonk |-> "ok"]
    /\ ret.document_type = None
    /\ Len(nec_collection) >= 1
    /\ ret.n_results > Len(nec_collection)
    /\ wattmonk_collection = <<>>
    /\ Len(ret.value) = Len(nec_collection)
    /\ Len(ret.store_calls) = 3

\* C5: when both embedding models fail on the query, search_documents
\* returns the empty list and has made no count and no query call.
SearchFailsClosed ==
    (SearchReturned /\ ret.fault.embed = "fail") =>
        /\ ret.value = <<>>
        /\ ret.store_calls = <<>>
        /\ Len(ret.embed_calls) = 2
        /\ \A i \in 1..Len(ret.embed_calls) : ~ret.embed_calls[i].ok

\* a search whose embedding failed, over a collection that holds records
EmbeddingFailedOverRecords ==
    /\ SearchReturned
    /\ ret.fault.embed = "fail"
    /\ ret.query_embedding = <<>>
    /\ "nec" \in Selected(ret.document_type)
    /\ Len(nec_collection) > 0
    /\ ret.value = <<>>

----------------------------------------------------------------------------
(* Properties of keyword_search *)

KeywordReturned == pc = "returned" /\ ret.op = "keyword_search"

\* the positions, among the whitespace tokens of the lower-cased query, of
\* the tokens longer than 2 characters
LongTokens(query) ==
    {t \in 1..Len(Split(Lower(query))) : SLen(Split(Lower(query))[t]) > 2}

\* those of the given token positions whose token occurs in the lower-cased
\* document
Occurring(positions, query, doc) ==
    {t \in positions : Contains(Lower(doc), Split(Lower(query))[t])}

\* hit h is record j of the collection called name
HitIsRecord(h, name, j) ==
    /\ h.collection = name
    /\ h.content = Collection(name)[j].document
    /\ h.metadata = Collection(name)[j].metadata

\* C13 as stated: every record of a collection that was read in which every
\* token of the query occurs is returned with pseudo-distance 0.
FullCoverageReturnedAtZero ==
    KeywordReturned =>
        \A name \in Selected(ret.document_type) :
            ret.fault[name] # "get" =>
                \A j \in 1..Len(Collection(name)) :
                    LET tokens == 1..Len(Split(Lower(ret.query)))
                    IN  (/\ tokens # {}
                         /\ Occurring(tokens, ret.query, Collection(name)[j].document)
                               = tokens) =>
                            \E i \in 1..Len(ret.value) :
                                /\ HitIsRecord(ret.value[i], name, j)
                                /\ ret.value[i].distance = <<0, 1>>

\* C13: with the keywords being the lower-cased whitespace tokens of the
\* query longer than 2 characters, every hit keyword_search returns is a
\* record of a selected collection in which m > 0 of the k keywords occur,
\* with keyword_matches = m and pseudo-distance 1 - m/k (0 when every keyword
\* occurs); a record in which no keyword occurs is never returned; and every
\* record of a collection that was read in which a keyword occurs is
\* returned unless n_results hits are returned without it.
KeywordDistanceIsCoverage ==
    KeywordReturned =>
        LET keys == LongTokens(ret.query)
            k    == Cardinality(keys)
            M(doc) == Cardinality(Occurring(keys, ret.query, doc))
        IN  /\ Len(ret.value) <= ret.n_results
            /\ \A i \in 1..Len(ret.value) :
                 LET h == ret.value[i]
                     m == M(h.content)
                 IN  /\ m > 0
                     /\ h.keyword_matches = m
                     /\ h.distance[2] > 0
                     /\ h.distance[1] * k = (k - m) * h.distance[2]
                     /\ (m = k => h.distance = <<0, 1>>)
                     /\ h.collection \in Selected(ret.document_type)
                     /\ ret.fault[h.collection] # "get"
                     /\ \E j \in 1..Len(Collection(h.collection)) :
                            HitIsRecord(h, h.collection, j)
            /\ \A name \in Selected(ret.document_type) :
                 ret.fault[name] # "get" =>
                     \A j \in 1..Len(Collection(name)) :
                         M(Collection(name)[j].document) > 0 =>
                             \/ Len(ret.value) = ret.n_results
                             \/ \E i \in 1..Len(ret.value) :
                                    HitIsRecord(ret.value[i], name, j)

\* a keyword search returned a hit with every keyword and a hit with half of
\* them, and left out a record with none
FullAndPartialCoverageReturned ==
    /\ KeywordReturned
    /\ \E i \in 1..Len(ret.value) : ret.value[i].distance = <<0, 1>>
    /\ \E i \in 1..Len(ret.value) : ret.value[i].distance = <<1, 2>>
    /\ \E name \in Selected(ret.document_type) :
         \E j \in 1..Len(Collection(name)) :
            /\ ret.fault[name] # "get"
            /\ Occurring(LongTokens(ret.query), ret.query,
                         Collection(name)[j].document) = {}

----------------------------------------------------------------------------
(* Properties of retrieve_context *)

RetrieveReturned == pc = "returned" /\ ret.op = "retrieve_context"

\* the first 100 characters of the content of a result
Prefix(result) == PySlice(result.content, 0, 100)

\* C14 as stated: no list retrieve_context returns holds two results whose
\* contents have the same first 100 characters.
RetrievedDistinctByPrefix ==
    RetrieveReturned =>
        \A i, j \in 1..Len(ret.value) :
            i < j => Prefix(ret.value[i]) # Prefix(ret.value[j])

\* C14: when retrieve_context has run the keyword search, the list it
\* returns holds no two results whose contents have the same first 100
\* characters: it is made of the keyword results followed by the semantic
\* results, of which only the first occurrence of each 100-character prefix
\* is kept, in order and cut to n_results.
MergedDistinctByPrefix ==
    (RetrieveReturned /\ ret.keyword_called) =>
        LET combined == ret.keyword_results \o ret.results
            firsts   == {p \in 1..Len(combined) :
                            \A q \in 1..(p - 1) :
                                Prefix(combined[q]) # Prefix(combined[p])}
        IN  /\ \A i, j \in 1..Len(ret.value) :
                 i < j => Prefix(ret.value[i]) # Prefix(ret.value[j])
            /\ Len(ret.value) = Min2(ret.n_results, Cardinality(firsts))
            /\ \A i \in 1..Len(ret.value) :
                 \E p \in firsts :
                    /\ Cardinality({q \in firsts : q < p}) = i - 1
                    /\ Prefix(ret.value[i]) = Prefix(combined[p])
                    /\ ret.value[i].content = combined[p].content
                    /\ ret.value[i].collection = combined[p].collection
                    /\ ret.value[i].metadata = combined[p].metadata

\* a retrieval that ran the keyword search and dropped a result whose
\* content differs from an earlier one's only after the first 100 characters
PrefixDuplicateCollapsed ==
    /\ RetrieveReturned
    /\ ret.keyword_called
    /\ Len(ret.value) < ret.n_results
    /\ LET combined == ret.keyword_results \o ret.results
       IN  \E p, q \in 1..Len(combined) :
              /\ p < q
              /\ Prefix(combined[p]) = Prefix(combined[q])
              /\ combined[p].content # combined[q].content

\* the lower-cased query contains the term
QueryHas(term) == Contains(Lower(ret.query), Str(term))

\* the number of collection.get() calls among the calls of a retrieval
GetCalls ==
    Cardinality({c \in 1..Len(ret.store_calls) : ret.store_calls[c].call = "get"})

\* C15: retrieve_context runs keyword_search (one collection.get() per
\* selected collection) exactly when the lower-cased query contains 'zippy',
\* or contains one of 'zippy', 'tool', 'automation', 'machine learning',
\* 'diagrams' and the semantic search returned fewer than 2 results;
\* otherwise no keyword search is made and the semantic results are returned
\* as they are.
KeywordSearchTriggered ==
    RetrieveReturned =>
        LET high     == QueryHas(<<"z","i","p","p","y">>)
            specific == \/ QueryHas(<<"z","i","p","p","y">>)
                        \/ QueryHas(<<"t","o","o","l">>)
                        \/ QueryHas(<<"a","u","t","o","m","a","t","i","o","n">>)
                        \/ QueryHas(<<"m","a","c","h","i","n","e"," ",
                                      "l","e","a","r","n","i","n","g">>)
                        \/ QueryHas(<<"d","i","a","g","r","a","m","s">>)
            expected == high \/ (specific /\ Len(ret.results) < 2)
        IN  /\ ret.keyword_called <=> expected
            /\ expected  => GetCalls = Cardinality(Selected(ret.document_type))
            /\ ~expected => /\ GetCalls = 0
                            /\ ret.value = ret.results

\* a retrieval whose query has a specific term but no high-priority one:
\* the semantic search returned one result and the keyword search was run
SpecificTermAfterFewResults ==
    /\ RetrieveReturned
    /\ ~QueryHas(<<"z","i","p","p","y">>)
    /\ QueryHas(<<"t","o","o","l">>)
    /\ Len(ret.results) = 1
    /\ ret.keyword_called
    /\ GetCalls > 0
    /\ ret.keyword_results # <<>>

----------------------------------------------------------------------------
(* Properties of classify_intent *)

ClassifyReturned == pc = "returned" /\ ret.op = "classify_intent"

\* how many terms of a vocabulary occur in the lower-cased query
Matches(vocabulary) ==
    Cardinality({i \in 1..Len(vocabulary) :
                    Contains(Lower(ret.query), vocabulary[i])})

\* the lower-cased query contains the characters of term in a row
Mentions(term) == Contains(Lower(ret.query), Str(term))

\* C16: when one vocabulary's match count is nonzero and strictly greater
\* than the other's, classify_intent returns that corpus as intent and as
\* document_type, with the match count as confidence.
HigherCountWins ==
    ClassifyReturned =>
        LET nec      == Matches(NecKeywords)
            wattmonk == Matches(WattmonkKeywords)
        IN  /\ (nec > wattmonk /\ nec > 0) =>
                 /\ ret.value.intent = "nec"
                 /\ ret.value.document_type = Str(<<"n","e","c">>)
                 /\ ret.value.confidence = nec
            /\ (wattmonk > nec /\ wattmonk > 0) =>
                 /\ ret.value.intent = "wattmonk"
                 /\ ret.value.document_type = Str(<<"w","a","t","t","m","o","n","k">>)
                 /\ ret.value.confidence = wattmonk

\* a query with two terms of one vocabulary and one of the other
TwoAgainstOne ==
    /\ ClassifyReturned
    /\ Matches(NecKeywords) = 2
    /\ Matches(WattmonkKeywords) = 1
    /\ ret.value.intent = "nec"
    /\ ret.value.confidence = 2

\* C17 as stated: on equal counts classify_intent decides by one anchor term
\* per corpus: 'nec' gives nec with confidence 1, 'wattmonk' gives wattmonk
\* with confidence 1, neither gives general, confidence 0, no corpus filter.
TieDecidedByOneAnchorEach ==
    (ClassifyReturned /\ Matches(NecKeywords) = Matches(WattmonkKeywords)) =>
        IF Mentions(<<"n","e","c">>)
        THEN ret.value.intent = "nec" /\ ret.value.confidence = 1
        ELSE IF Mentions(<<"w","a","t","t","m","o","n","k">>)
        THEN ret.value.intent = "wattmonk" /\ ret.value.confidence = 1
        ELSE /\ ret.value.intent = "general"
             /\ ret.value.confidence = 0
             /\ ret.value.document_type = None

\* C17: on equal counts (both zero included) classify_intent decides by two
\* anchor terms per corpus, those of nec first: a query containing 'nec' or
\* 'electrical' gets nec with confidence 1; otherwise one containing
\* 'wattmonk' or 'company' gets wattmonk with confidence 1; otherwise the
\* intent is general, the confidence 0 and there is no corpus filter.
TieDecidedByAnchors ==
    (ClassifyReturned /\ Matches(NecKeywords) = Matches(WattmonkKeywords)) =>
        IF Mentions(<<"n","e","c">>)
           \/ Mentions(<<"e","l","e","c","t","r","i","c","a","l">>)
        THEN /\ ret.value.intent = "nec"
             /\ ret.value.confidence = 1
             /\ ret.value.document_type = Str(<<"n","e","c">>)
        ELSE IF Mentions(<<"w","a","t","t","m","o","n","k">>)
                \/ Mentions(<<"c","o","m","p","a","n","y">>)
        THEN /\ ret.value.intent = "wattmonk"
             /\ ret.value.confidence = 1
             /\ ret.value.document_type = Str(<<"w","a","t","t","m","o","n","k">>)
        ELSE /\ ret.value.intent = "general"
             /\ ret.value.confidence = 0
             /\ ret.value.document_type = None

\* a query matching no term of either vocabulary that contains 'electrical'
\* and not 'nec', classified nec
TieDecidedBySecondAnchor ==
    /\ ClassifyReturned
    /\ Matches(NecKeywords) = 0
    /\ Matches(WattmonkKeywords) = 0
    /\ Mentions(<<"e","l","e","c","t","r","i","c","a","l">>)
    /\ ~Mentions(<<"n","e","c">>)
    /\ ret.value.intent = "nec"
    /\ ret.value.confidence = 1

\* C18: classify_intent gives the documented queries the intents the
\* documentation and check_documents.py state: nec for the three electrical
\* ones, wattmonk for the three company ones, general with confidence 0 for
\* the weather one.
DocumentedQueriesRouted ==
    ClassifyReturned =>
        /\ ret.query \in {GroundingQuery, NecCodesQuery, NecGroundingQuery} =>
             /\ ret.value.intent = "nec"
             /\ Matches(NecKeywords) > 0
             /\ Matches(WattmonkKeywords) = 0
        /\ ret.query \in {PlatformQuery, WhatIsWattmonkQuery, ServicesQuery} =>
             /\ ret.value.intent = "wattmonk"
             /\ Matches(WattmonkKeywords) > 0
             /\ Matches(NecKeywords) = 0
        /\ ret.query = WeatherQuery =>
             /\ ret.value.intent = "general"
             /\ ret.value.confidence = 0
             /\ Matches(NecKeywords) = 0
             /\ Matches(WattmonkKeywords) = 0
             /\ ~Mentions(<<"e","l","e","c","t","r","i","c","a","l">>)
             /\ ~Mentions(<<"c","o","m","p","a","n","y">>)

\* the documented company query with a capital and an apostrophe, classified
PlatformQueryRouted ==
    /\ ClassifyReturned
    /\ ret.query = PlatformQuery
    /\ ret.value = [intent |-> "wattmonk", confidence |-> 2,
                    document_type |-> Str(<<"w","a","t","t","m","o","n","k">>)]

----------------------------------------------------------------------------
(* Properties of chat *)

ChatReturned == pc = "returned" /\ ret.op = "chat"

\* the position of a call in the calls chat made, 0 when it was not made
CallIndex(calls, name) ==
    IF \E i \in 1..Len(calls) : calls[i] = name
    THEN CHOOSE i \in 1..Len(calls) : calls[i] = name
    ELSE 0

\* the names of the collections of the corpus an intent stands for
CorpusOf(intent) == IF intent = "nec" THEN {"nec"} ELSE {"wattmonk"}

\* C19: chat retrieves exactly when classify_intent returned nec or
\* wattmonk.  For a general query it makes no embedding call, no collection
\* call (count, query or get) and returns an empty context_used; for nec or
\* wattmonk it calls retrieve_context once, with that corpus as the filter
\* (so only that corpus's collection is touched) and before
\* generate_response, which is called whenever classify_intent returned.
ChatRetrievesForCorpusOnly ==
    /\ pc = "chat_retrieve" => ch.intent_info.intent \in {"nec", "wattmonk"}
    /\ pc = "chat_generate" =>
         (CallIndex(ch.calls, "retrieve_context") > 0
             <=> ch.intent_info.intent \in {"nec", "wattmonk"})
    /\ (ChatReturned /\ ~ret.excepted) =>
         LET intent == ret.value.intent.intent
         IN  /\ CallIndex(ret.calls, "generate_response") = Len(ret.calls)
             /\ intent \in {"nec", "wattmonk", "general"}
             /\ intent = "general" =>
                  /\ CallIndex(ret.calls, "retrieve_context") = 0
                  /\ ret.embed_calls = <<>>
                  /\ ret.store_calls = <<>>
                  /\ ret.value.context_used = <<>>
                  /\ ~ret.value.has_context
             /\ intent \in {"nec", "wattmonk"} =>
                  /\ CallIndex(ret.calls, "retrieve_context") > 0
                  /\ CallIndex(ret.calls, "retrieve_context")
                        < CallIndex(ret.calls, "generate_response")
                  /\ Cardinality({i \in 1..Len(ret.calls) :
                                     ret.calls[i] = "retrieve_context"}) = 1
                  /\ Selected(ret.filter) = CorpusOf(intent)
                  /\ ret.embed_calls # <<>>
                  /\ \A i \in 1..Len(ret.store_calls) :
                        ret.store_calls[i].collection \in CorpusOf(intent)
                  /\ \A i \in 1..Len(ret.value.context_used) :
                        ret.value.context_used[i].collection \in CorpusOf(intent)

\* a chat on a general query over a store that holds records made no call
\* but the generation
GeneralChatSkipsRetrieval ==
    /\ ChatReturned
    /\ ret.value.intent.intent = "general"
    /\ Len(nec_collection) > 0
    /\ ret.calls = <<"classify_intent", "generate_response">>
    /\ ret.embed_calls = <<>>
    /\ ret.store_calls = <<>>
    /\ ret.value.context_used = <<>>

----------------------------------------------------------------------------
(* Properties of generate_embeddings *)

\* C20: generate_embeddings (here called by search_documents on the query)
\* makes one or two embed_content calls: the first on the primary model; a
\* second, on the fallback model, exactly when the first failed.  It returns
\* the vector of the first call that succeeded, and the empty vector exactly
\* when both calls failed.
EmbeddingFallsBackOnce ==
    SearchReturned =>
        LET calls == ret.embed_calls
            n     == Len(calls)
        IN  /\ n \in {1, 2}
            /\ calls[1].model = PrimaryModel
            /\ n = 2 <=> ~calls[1].ok
            /\ n = 2 => calls[2].model = FallbackModel
            /\ ret.query_embedding = <<>> <=> (n = 2 /\ ~calls[2].ok)
            /\ calls[n].ok =>
                 ret.query_embedding = EmbedVector(calls[n].model, ret.query)

\* a search whose query was embedded by the fallback model after the
\* primary model failed
FallbackModelEmbedded ==
    /\ SearchReturned
    /\ Len(ret.embed_calls) = 2
    /\ ~ret.embed_calls[1].ok
    /\ ret.embed_calls[2].ok
    /\ ret.embed_calls[2].model = FallbackModel
    /\ ret.query_embedding = EmbedVector(FallbackModel, ret.query)
    /\ ret.value # <<>>

\* C21: every embedding request search_documents issues for its query
\* carries the query-oriented task type ("retrieval_query"), as every
\* request of ingestion carries the document-oriented one.
QueryEmbeddingsAreQueryTyped ==
    SearchReturned =>
        \A i \in 1..Len(ret.embed_calls) :
            ret.embed_calls[i].task_type = "retrieval_query"

\* a step of the retrieval of a chat failed: both embedding calls, or a call
\* on a collection
RetrievalFailed ==
    \/ /\ ret.embed_calls # <<>>
       /\ ~ret.embed_calls[Len(ret.embed_calls)].ok
    \/ \E i \in 1..Len(ret.store_calls) : ret.store_calls[i].raised

\* C22 as stated: whenever the generation call or any other step of the
\* pipeline failed, chat returns an apology that reports zero sources.
ChatApologisesOnAnyFailure ==
    (ChatReturned /\ (~ret.generated \/ ret.excepted \/ RetrievalFailed)) =>
        /\ ret.value.response = "apology"
        /\ ret.value.sources_count = 0
        /\ ~ret.value.has_context

\* C22: chat returns a response in every case.  When the generation call
\* failed, or an exception escaped another step, the response is an apology
\* with sources_count = 0 and has_context false (and, in the second case, an
\* empty context_used and intent 'error').  A failure inside the retrieval
\* (embedding or collection call) is absorbed there: the generation runs on
\* what was retrieved and its answer is returned.
ChatApologisesWhenGenerationFails ==
    /\ pc \in {"chat_retrieve", "chat_generate", "chat_except"} => ch # NoFrame
    /\ ChatReturned =>
         /\ (~ret.generated \/ ret.excepted) =>
              /\ ret.value.response = "apology"
              /\ ret.value.sources_count = 0
              /\ ~ret.value.has_context
         /\ ret.excepted =>
              /\ ret.value.context_used = <<>>
              /\ ret.value.intent.intent = "error"
         /\ (ret.generated /\ ~ret.excepted) =>
              /\ ret.value.response = "answer"
              /\ ret.value.context_used = <<>> => ret.value.sources_count = 0

\* a chat whose retrieval found records and whose generation call failed
GenerationFailedWithContext ==
    /\ ChatReturned
    /\ ~ret.generated
    /\ ~ret.excepted
    /\ ret.value.context_used # <<>>
    /\ ret.value.response = "apology"
    /\ ret.value.sources_count = 0
    /\ ~ret.value.has_context

\* a result that keyword_search made
IsKeywordHit(h) == "keyword_matches" \in DOMAIN h

\* two results are the same record of the same collection
SameRecord(g, h) ==
    /\ g.collection = h.collection
    /\ g.content = h.content
    /\ g.metadata = h.metadata

\* C23: when the keyword search was run, retrieve_context returns at most
\* n_results entries, as many as there are distinct 100-character prefixes
\* among the keyword and semantic results if these are fewer; the keyword
\* hits kept come before the semantic hits kept, whatever the distances;
\* a semantic hit is kept only if no keyword hit has its prefix, so that of
\* a record found by both searches only the keyword entry can be kept; and
\* the keyword hits kept are the first of the keyword results.
KeywordHitsLead ==
    (RetrieveReturned /\ ret.keyword_called) =>
        LET combined == ret.keyword_results \o ret.results
            prefixes == {Prefix(combined[p]) : p \in 1..Len(combined)}
            kept     == {i \in 1..Len(ret.value) : IsKeywordHit(ret.value[i])}
        IN  /\ Len(ret.value) = Min2(ret.n_results, Cardinality(prefixes))
            /\ \A i, j \in 1..Len(ret.value) :
                 (i < j /\ IsKeywordHit(ret.value[j])) => IsKeywordHit(ret.value[i])
            /\ \A j \in 1..Len(ret.value) :
                 ~IsKeywordHit(ret.value[j]) =>
                     /\ \A p \in 1..Len(ret.keyword_results) :
                           /\ Prefix(ret.keyword_results[p]) # Prefix(ret.value[j])
                           /\ ~SameRecord(ret.keyword_results[p], ret.value[j])
                     /\ \E q \in 1..Len(ret.results) : ret.results[q] = ret.value[j]
            /\ \A i \in kept :
                 \E p \in 1..Len(ret.keyword_results) :
                    /\ ret.keyword_results[p] = ret.value[i]
                    /\ \A q \in 1..(p - 1) :
                          \E i2 \in kept :
                             /\ i2 < i
                             /\ Prefix(ret.value[i2]) = Prefix(ret.keyword_results[q])

\* a retrieval that kept a keyword hit of a record the semantic search found
\* too, and after it a semantic hit that is nearer than the keyword hit's
\* pseudo-distance
KeywordHitBeforeNearerSemanticHit ==
    /\ RetrieveReturned
    /\ ret.keyword_called
    /\ \E i, j \in 1..Len(ret.value) :
          /\ i < j
          /\ IsKeywordHit(ret.value[i])
          /\ ~IsKeywordHit(ret.value[j])
          /\ ret.value[j].distance * ret.value[i].distance[2] < ret.value[i].distance[1]
          /\ \E q \in 1..Len(ret.results) : SameRecord(ret.results[q], ret.value[i])

\* how many keywords of the query of the returned search occur in a document
KeywordsIn(doc) ==
    Cardinality(Occurring(LongTokens(ret.query), ret.query, doc))

\* C24: keyword_search returns at most n_results hits, by non-increasing
\* match count and, among equal counts, non-decreasing pseudo-distance; and
\* a matching record of a collection that was read is left out only if no
\* returned hit has a lower match count than it.
KeywordResultsRanked ==
    KeywordReturned =>
        /\ Len(ret.value) <= ret.n_results
        /\ \A i, j \in 1..Len(ret.value) :
             i < j =>
                /\ KeywordsIn(ret.value[i].content) >= KeywordsIn(ret.value[j].content)
                /\ ret.value[i].keyword_matches >= ret.value[j].keyword_matches
                /\ ret.value[i].keyword_matches = ret.value[j].keyword_matches =>
                      ret.value[i].distance[1] * ret.value[j].distance[2]
                         <= ret.value[j].distance[1] * ret.value[i].distance[2]
        /\ \A name \in Selected(ret.document_type) :
             ret.fault[name] # "get" =>
                 LET coll == Collection(name)
                 IN  \A doc \in {coll[j].document : j \in 1..Len(coll)} :
                        LET count == KeywordsIn(doc)
                        IN  \/ count = 0
                            \/ \A i \in 1..Len(ret.value) :
                                  KeywordsIn(ret.value[i].content) >= count
                            \/ \A j \in 1..Len(coll) :
                                  coll[j].document = doc =>
                                     \E i \in 1..Len(ret.value) :
                                        HitIsRecord(ret.value[i], name, j)

\* a keyword search that returned a record with more matches than a
\* matching record stored before it in the same collection, and left that
\* one out
BetterMatchOvertakes ==
    /\ KeywordReturned
    /\ Len(ret.value) = ret.n_results
    /\ \E i \in 1..Len(ret.value) :
         \E l \in 1..Len(Collection(ret.value[i].collection)) :
            /\ HitIsRecord(ret.value[i], ret.value[i].collection, l)
            /\ \E j \in 1..(l - 1) :
                  LET doc == Collection(ret.value[i].collection)[j].document
                  IN  /\ KeywordsIn(doc) > 0
                      /\ KeywordsIn(doc) < ret.value[i].keyword_matches
                      /\ \A i2 \in 1..Len(ret.value) :
                            ~HitIsRecord(ret.value[i2], ret.value[i].collection, j)

\* --------------------------------------------------------------------------
\* process_document's loop over the chunks

\* the chunks the loop of the running process_document call has gone past
ChunksTaken == Min2(pd.batch_start, Len(pd.chunks))

\* the embedding and the store call of chunk i of the running call succeed
ChunkSucceeds(i) ==
    /\ EmbedOutcome(env.service, pd.call_no, i) # "fail"
    /\ StoreOutcome(env.service, pd.call_no, i) = "ok"

\* C25: while process_document stores, every chunk the loop has gone past
\* was taken once, in increasing index order, whatever failed before it;
\* and each of them whose embedding and store call succeed is in the target
\* collection under its id and counted in successful_chunks.
EveryChunkAttemptedOnce ==
    pc = "store_loop" =>
        LET coll == Collection(TargetCollection(pd.document_type))
        IN  /\ pd.order = [i \in 1..ChunksTaken |-> i - 1]
            /\ \A i \in 0..(ChunksTaken - 1) :
                  ChunkSucceeds(i) =>
                     \E j \in 1..Len(coll) :
                        /\ coll[j].id = ChunkId(pd.file_path, i, pd.chunks[i + 1])
                        /\ coll[j].metadata.chunk_index = i
                        /\ env.add_existing = "overwrite" =>
                               coll[j].document = pd.chunks[i + 1]
            /\ env.add_existing # "raise" =>
                  pd.successful_chunks
                     = Cardinality({i \in 0..(ChunksTaken - 1) : ChunkSucceeds(i)})

\* an ingestion that went through all its chunks, lost one to the embedding
\* and one to the store, and stored a chunk that comes after both
ChunkStoredAfterFailures ==
    /\ pc = "store_loop"
    /\ pd.batch_start >= Len(pd.chunks)
    /\ pd.embed_failed /\ pd.store_failed
    /\ \E i, j, k \in 0..(ChunksTaken - 1) :
          /\ i < k /\ j < k
          /\ EmbedOutcome(env.service, pd.call_no, i) = "fail"
          /\ StoreOutcome(env.service, pd.call_no, j) = "fail"
          /\ ChunkSucceeds(k)
          /\ HasId(Collection(TargetCollection(pd.document_type)),
                   ChunkId(pd.file_path, k, pd.chunks[k + 1]))

\* --------------------------------------------------------------------------
\* a store call that fails during a search

\* the selected collections on which a call of the returned search raised:
\* get() in keyword_search, count() or query() in search_documents
FailedIn(calls) ==
    {name \in Selected(ret.document_type) :
        \E c \in 1..Len(calls) : calls[c].collection = name /\ calls[c].raised}

\* the document_type that selects the collections of the returned search
\* other than those in failed: None for both, a name for one, and "other",
\* which selects none, when all of them failed
TypeWithout(failed) ==
    LET left == Selected(ret.document_type) \ failed
    IN  IF left = {"nec", "wattmonk"} THEN None
        ELSE IF left = {"nec"} THEN Str(<<"n","e","c">>)
        ELSE IF left = {"wattmonk"} THEN Str(<<"w","a","t","t","m","o","n","k">>)
        ELSE Str(<<"o","t","h","e","r">>)

\* no call fails
NoFault == [embed |-> "primary", nec |-> "ok", wattmonk |-> "ok"]

\* C26: when a store call fails on a selected collection, the search
\* returns; no hit is tagged with that collection; and what is returned is
\* what the same search returns when it selects only the other collections
\* and no call fails: their hits, in ranked order.  For search_documents
\* (here called by retrieve_context) and for keyword_search.
FailedCollectionIsOmitted ==
    /\ KeywordReturned =>
          LET failed == FailedIn(ret.store_calls)
          IN  /\ \A name \in failed : Tagged(ret.value, name) = <<>>
              /\ ret.value = KeywordResult(ret.query, TypeWithout(failed),
                                           ret.n_results, NoFault).value
    /\ (RetrieveReturned /\ ret.fault.embed = "primary") =>
          LET IsSemantic(c) == c.call \in {"count", "query"}
              failed == FailedIn(SelectSeq(ret.store_calls, IsSemantic))
          IN  /\ \A name \in failed : Tagged(ret.results, name) = <<>>
              /\ \E tie \in TieOrders :
                    ret.results = SearchResult(ret.query, TypeWithout(failed),
                                               ret.n_results, tie, NoFault).value

\* a retrieval over both collections whose count() on the nec collection
\* raised, the collection holding records, and whose semantic search
\* returned hits of the wattmonk collection
OtherCollectionStillSearched ==
    /\ RetrieveReturned
    /\ ret.document_type = None
    /\ ret.fault.nec = "count"
    /\ Len(nec_collection) > 0
    /\ ret.results # <<>>
    /\ \A i \in 1..Len(ret.results) : ret.results[i].collection = "wattmonk"

\* --------------------------------------------------------------------------
\* chunk_text on a text that fits one window

\* C27: when chunk_text, called with room for a chunk, returns for a text
\* no longer than chunk_size, it returns one chunk, the trimmed text, when
\* the trimmed text is longer than 100 characters, and none otherwise.
ShortTextGivesOneChunk ==
    (/\ pc = "returned"
     /\ ret.op = "chunk_text"
     /\ ret.frame.max_chunks >= 1
     /\ ret.frame.text_length <= ret.frame.chunk_size) =>
        ret.value = IF SLen(Strip(ret.frame.text)) > MinChunkLen
                    THEN <<Strip(ret.frame.text)>>
                    ELSE <<>>

\* --------------------------------------------------------------------------
\* a search restricted to one corpus

\* the collection a document_type restricts a search to, "none" when it
\* restricts it to neither
FilterOf(document_type) ==
    IF document_type = None THEN "none"
    ELSE IF IsNec(document_type) THEN "nec"
    ELSE IF IsWattmonk(document_type) THEN "wattmonk"
    ELSE "none"

\* hit h is a record of the collection called name
ReadFrom(h, name) ==
    /\ h.collection = name
    /\ \E j \in 1..Len(Collection(name)) :
          /\ h.content = Collection(name)[j].document
          /\ h.metadata = Collection(name)[j].metadata

\* what search_documents returns for the returned call when it reads the
\* collection called name and no other
SemanticOver(name, tie) ==
    LET emb    == GenerateEmbeddings(ret.fault.embed, ret.query)
        sorted == SortByDistance(SearchCollection(name, Collection(name), emb.vector,
                                                  ret.n_results, tie,
                                                  ret.fault[name]).hits)
    IN  IF emb.vector = <<>> THEN <<>>
        ELSE SubSeq(sorted, 1, Min2(ret.n_results, Len(sorted)))

\* what keyword_search returns for the returned call when it reads the
\* collection called name and no other
KeywordOver(name) ==
    LET keywords == Keywords(ret.query)
        sorted   == SortByMatches(KeywordScan(name, Collection(name), keywords,
                                              ret.fault[name]).hits, Len(keywords))
    IN  SubSeq(sorted, 1, Min2(ret.n_results, Len(sorted)))

\* C28: a keyword_search or retrieve_context call (and the search_documents
\* call the latter makes) whose document_type is 'nec' or 'wattmonk' in any
\* letter case makes store calls on that collection only; every hit it
\* returns is a record of that collection and tagged with it; and what it
\* returns is determined by that collection, the query, n_results and the
\* faults of that collection alone.
RestrictedSearchReadsOneCollection ==
    ((KeywordReturned \/ RetrieveReturned) /\ FilterOf(ret.document_type) # "none") =>
        LET name == FilterOf(ret.document_type)
        IN  /\ \A c \in 1..Len(ret.store_calls) : ret.store_calls[c].collection = name
            /\ \A i \in 1..Len(ret.value) : ReadFrom(ret.value[i], name)
            /\ KeywordReturned => ret.value = KeywordOver(name)
            /\ RetrieveReturned =>
                  /\ \E tie \in TieOrders : ret.results = SemanticOver(name, tie)
                  /\ ret.keyword_called => ret.keyword_results = KeywordOver(name)
                  /\ \A i \in 1..Len(ret.value) :
                        \/ \E q \in 1..Len(ret.results) : ret.value[i] = ret.results[q]
                        \/ /\ ret.keyword_called
                           /\ \E q \in 1..Len(ret.keyword_results) :
                                 ret.value[i] = ret.keyword_results[q]

\* a retrieval restricted to the nec collection that ran both searches and
\* returned hits, while the wattmonk collection held a record with the
\* content of a returned hit
OtherCollectionHoldsSameContent ==
    /\ RetrieveReturned
    /\ FilterOf(ret.document_type) = "nec"
    /\ ret.keyword_called
    /\ ret.results # <<>>
    /\ ret.value # <<>>
    /\ \E j \in 1..Len(wattmonk_collection) :
          wattmonk_collection[j].document = ret.value[1].content

\* --------------------------------------------------------------------------
\* the conversation history

\* chat is between its first and its last step
InChat(p) == p \in {"chat_retrieve", "chat_generate", "chat_except"}

\* a log of user entries at the odd and bot entries at the even positions,
\* ending with a bot entry
AlternatingLog(history) ==
    /\ Len(history) % 2 = 0
    /\ \A i \in 1..Len(history) :
          history[i].type = (IF i % 2 = 1 THEN "user" ELSE "bot")

\* what one step does to the history
HistoryStep ==
    /\ (pc = "idle" /\ InChat(pc')) =>
          conversation_history'
             = IF ch'.maintain_history
               THEN Append(conversation_history,
                           [type |-> "user", user_query |-> ch'.query])
               ELSE conversation_history
    /\ (InChat(pc) /\ InChat(pc')) => UNCHANGED conversation_history
    /\ (InChat(pc) /\ pc' = "returned") =>
          /\ ret'.op = "chat"
          /\ pc = "chat_except" => ret'.excepted
          /\ conversation_history'
                = IF ch.maintain_history
                  THEN Append(conversation_history,
                              [type |-> "bot", bot_response |-> ret'.value])
                  ELSE conversation_history
    /\ (pc = "idle" /\ pc' = "returned") =>
          IF ret'.op = "clear_conversation_history"
          THEN conversation_history' = <<>>
          ELSE /\ ret'.op \in {"search_knowledge_base", "get_conversation_history"}
               /\ UNCHANGED conversation_history
    /\ pc = "returned" => UNCHANGED conversation_history
    /\ ~InChat(pc') => AlternatingLog(conversation_history')

\* C29: a chat call with maintain_history appends one user entry when it
\* starts and one bot entry, holding the response it returns, when it
\* returns, from its handler too; a chat call without maintain_history,
\* search_knowledge_base and get_conversation_history leave the history
\* unchanged; clear_conversation_history empties it; and between calls the
\* history is an alternating user/bot log of even length.
HistoryAlternates == [][HistoryStep]_vars

\* a second chat call with maintain_history that raised and returned from
\* the handler, the history holding both exchanges
SecondExchangeLoggedAfterRaise ==
    /\ pc = "returned"
    /\ ret.op = "chat"
    /\ ret.excepted
    /\ ret.maintain_history
    /\ Len(conversation_history) = 4
    /\ conversation_history[3] = [type |-> "user", user_query |-> ret.value.query]
    /\ conversation_history[4] = [type |-> "bot", bot_response |-> ret.value]

\* --------------------------------------------------------------------------
\* the sources a response reports

\* C30: in every response chat returns, sources_count is the number of
\* entries of context_used, and has_context is true exactly when
\* context_used is not empty.
SourcesCountIsContextSize ==
    ChatReturned =>
        /\ ret.value.sources_count = Len(ret.value.context_used)
        /\ ret.value.has_context <=> (ret.value.context_used # <<>>)

====
